---------------------------- MODULE Spec2Model ----------------------------
(***************************************************************************)
(* NimbusFlags: the flag evaluation engine (services/flag_service.py) and  *)
(* the tenant-scoped flag storage behind the admin and evaluate endpoints. *)
(*                                                                         *)
(* JSON values are tagged tuples so that values of different JSON types    *)
(* can be compared: <<"str", s>>, <<"num", n>>, <<"bool", b>>, <<"null">>, *)
(* <<"list", seq>>, <<"obj", function>>.  Python's None is JSON null.      *)
(***************************************************************************)
EXTENDS Integers, Sequences, FiniteSets, TLC

VARIABLES
    flag,             \* evaluate_flag argument: the flag dict
    user_attributes,  \* evaluate_flag argument: the user attribute dict
    pc,               \* "ready" before the call, "done" after it
    result,           \* what the call produced: [outcome, value, examined]
    permResults,      \* the values produced for every reordering of the conditions
    clients,          \* table clients: set of rows
    flags,            \* table flags: set of rows
    now,              \* database clock NOW(); also seeds uuid4()
    request,          \* the HTTP request handled last
    g_client_id,      \* flask.g.client_id of that request ("none": not set)
    fetched,          \* the rows the flags repository returned to that request
    response,         \* the HTTP response to that request
    calls,            \* the repository calls that request issued, in order
    sessions,         \* table sessions: set of rows
    resolved,         \* what resolve_client_by_session_token returned last (empty: None)
    workers,          \* the upsert requests in flight, one per server worker
    lastEval,         \* history: the last evaluation answered with no write to its flag since
    ledger            \* history: per (tenant, key), the last write and its payload

evalVars == <<flag, user_attributes, pc, result, permResults>>

storeVars == <<clients, flags, now, request, g_client_id, fetched, response,
               calls, sessions, resolved, workers, lastEval, ledger>>

\* what the flag endpoints leave alone
histVars == <<lastEval, ledger>>
sessVars == <<sessions, resolved, workers>>

vars == <<flag, user_attributes, pc, result, permResults,
          clients, flags, now, request, g_client_id, fetched, response,
          calls, sessions, resolved, workers, lastEval, ledger>>

-----------------------------------------------------------------------------
(* JSON / Python values *)

JStr(s) == <<"str", s>>
JNum(n) == <<"num", n>>
JBool(b) == <<"bool", b>>
JNull == <<"null">>
JList(l) == <<"list", l>>
JObj(f) == <<"obj", f>>

EmptyDict == JObj(<<>>)

IsDict(v) == v[1] = "obj"
IsList(v) == v[1] = "list"
IsStr(v) == v[1] = "str"

\* Python truthiness: bool(v)
Truthy(v) ==
    CASE v[1] = "bool" -> v[2]
      [] v[1] = "num"  -> v[2] # 0
      [] v[1] = "str"  -> v[2] # ""
      [] v[1] = "null" -> FALSE
      [] v[1] = "list" -> Len(v[2]) > 0
      [] v[1] = "obj"  -> DOMAIN v[2] # {}

\* bool is a subclass of int in Python: True == 1 and False == 0
IsNumeric(v) == v[1] \in {"bool", "num"}
AsInt(v) == IF v[1] = "bool" THEN (IF v[2] THEN 1 ELSE 0) ELSE v[2]

\* Python's == on JSON-decoded values
RECURSIVE PyEq(_, _)
PyEq(a, b) ==
    IF IsNumeric(a) /\ IsNumeric(b) THEN AsInt(a) = AsInt(b)
    ELSE IF a[1] # b[1] THEN FALSE
    ELSE CASE a[1] = "str"  -> a[2] = b[2]
           [] a[1] = "null" -> TRUE
           [] a[1] = "list" -> /\ Len(a[2]) = Len(b[2])
                               /\ \A i \in 1..Len(a[2]) : PyEq(a[2][i], b[2][i])
           [] a[1] = "obj"  -> /\ DOMAIN a[2] = DOMAIN b[2]
                               /\ \A k \in DOMAIN a[2] : PyEq(a[2][k], b[2][k])

\* dict.get(k, default) on a JSON object
DictGet(d, k, default) == IF k \in DOMAIN d[2] THEN d[2][k] ELSE default

\* `k in d` for a str-keyed dict d and a hashable k: only a str can be a key
InDict(k, d) == IsStr(k) /\ k[2] \in DOMAIN d[2]

\* list, dict are unhashable: `k in d` raises TypeError
Hashable(k) == k[1] \notin {"list", "obj"}

\* `val in ref` for a list ref
InList(val, ref) == \E i \in 1..Len(ref[2]) : PyEq(ref[2][i], val)

-----------------------------------------------------------------------------
(* services/flag_service.py *)

\* an exception leaving the function (AttributeError, TypeError)
Raise == <<"raise">>

\* Mutant: the attribute is read with user_attributes.get(attr), so an absent
\* attribute is compared as None instead of failing
matches_condition_GetDefault(cond, ua) ==
    IF ~IsDict(cond) THEN Raise
    ELSE LET attr == DictGet(cond, "attribute", JNull)
             operator == DictGet(cond, "operator", JNull)
             ref == DictGet(cond, "value", JNull)
         IN  IF ~Hashable(attr) THEN Raise
             ELSE LET val == IF InDict(attr, ua) THEN ua[2][attr[2]] ELSE JNull
                  IN  IF PyEq(operator, JStr("equals")) THEN JBool(PyEq(val, ref))
                      ELSE IF PyEq(operator, JStr("in"))
                           THEN IF ~IsList(ref) \/ ~Truthy(ref) THEN JBool(FALSE)
                                ELSE JBool(InList(val, ref))
                      ELSE JBool(FALSE)

\* Mutant: no isinstance(ref, list) guard, so `val in ref` on a str ref is a
\* substring test (a string is a substring of itself)
matches_condition_NoListGuard(cond, ua) ==
    IF ~IsDict(cond) THEN Raise
    ELSE LET attr == DictGet(cond, "attribute", JNull)
             operator == DictGet(cond, "operator", JNull)
             ref == DictGet(cond, "value", JNull)
         IN  IF ~Hashable(attr) THEN Raise
             ELSE IF ~InDict(attr, ua) THEN JBool(FALSE)
             ELSE LET val == ua[2][attr[2]]
                  IN  IF PyEq(operator, JStr("equals")) THEN JBool(PyEq(val, ref))
                      ELSE IF PyEq(operator, JStr("in"))
                           THEN IF IsList(ref) THEN JBool(InList(val, ref))
                                ELSE JBool(IsStr(ref) /\ PyEq(val, ref))
                      ELSE JBool(FALSE)

\* Mutant: an unknown operator falls through to `return True` (fail open)
matches_condition_UnknownPasses(cond, ua) ==
    IF ~IsDict(cond) THEN Raise
    ELSE LET attr == DictGet(cond, "attribute", JNull)
             operator == DictGet(cond, "operator", JNull)
             ref == DictGet(cond, "value", JNull)
         IN  IF ~Hashable(attr) THEN Raise
             ELSE IF ~InDict(attr, ua) THEN JBool(FALSE)
             ELSE LET val == ua[2][attr[2]]
                  IN  IF PyEq(operator, JStr("equals")) THEN JBool(PyEq(val, ref))
                      ELSE IF PyEq(operator, JStr("in"))
                           THEN IF ~IsList(ref) \/ ~Truthy(ref) THEN JBool(FALSE)
                                ELSE JBool(InList(val, ref))
                      ELSE JBool(TRUE)

\* _matches_condition(cond): JBool(TRUE), JBool(FALSE), or Raise
matches_condition(cond, ua) ==
    IF ~IsDict(cond) THEN Raise                         \* cond.get: AttributeError
    ELSE LET attr == DictGet(cond, "attribute", JNull)
             operator == DictGet(cond, "operator", JNull)
             ref == DictGet(cond, "value", JNull)
         IN  IF ~Hashable(attr) THEN Raise              \* attr not in dict: TypeError
             ELSE IF ~InDict(attr, ua) THEN JBool(FALSE)
             ELSE LET val == ua[2][attr[2]]
                  IN  IF PyEq(operator, JStr("equals")) THEN JBool(PyEq(val, ref))
                      ELSE IF PyEq(operator, JStr("in"))
                           THEN IF ~IsList(ref) \/ ~Truthy(ref) THEN JBool(FALSE)
                                ELSE JBool(InList(val, ref))
                      ELSE JBool(FALSE)

Result(k, e, p) == [flag_key |-> k, enabled |-> e, parameters |-> p]

\* a call's outcome: the dict returned (or an exception) and the number of
\* conditions _matches_condition was called on
Returned(v, n) == [outcome |-> "return", value |-> v, examined |-> n]
Raised(n) == [outcome |-> "raise", value |-> Result(JNull, FALSE, EmptyDict), examined |-> n]

\* Mutant: the loop returns enabled:true as soon as one condition passes (OR)
RECURSIVE ConditionLoop_AnyPasses(_, _, _, _)
ConditionLoop_AnyPasses(f, conditions, i, ua) ==
    LET p == DictGet(f, "parameters", JNull)
        on(n) == Returned(Result(DictGet(f, "key", JNull), TRUE,
                                 IF Truthy(p) THEN p ELSE EmptyDict), n)
    IN  IF Len(conditions) = 0 THEN on(0)
        ELSE IF i > Len(conditions)
        THEN Returned(Result(DictGet(f, "key", JNull), FALSE, EmptyDict), i - 1)
        ELSE LET m == matches_condition(conditions[i], ua)
             IN  IF m = Raise THEN Raised(i)
                 ELSE IF Truthy(m) THEN on(i)
                 ELSE ConditionLoop_AnyPasses(f, conditions, i + 1, ua)

\* Mutant: the failing branch returns the flag's parameters
RECURSIVE ConditionLoop_LeakParams(_, _, _, _)
ConditionLoop_LeakParams(f, conditions, i, ua) ==
    LET p == DictGet(f, "parameters", JNull)
        params == IF Truthy(p) THEN p ELSE EmptyDict
    IN  IF i > Len(conditions)
        THEN Returned(Result(DictGet(f, "key", JNull), TRUE, params), i - 1)
        ELSE LET m == matches_condition(conditions[i], ua)
             IN  IF m = Raise THEN Raised(i)
                 ELSE IF ~Truthy(m)
                      THEN Returned(Result(DictGet(f, "key", JNull), FALSE, params), i)
                      ELSE ConditionLoop_LeakParams(f, conditions, i + 1, ua)

\* Mutant: the loop body returns on its first iteration in both branches, so
\* only the first condition decides
ConditionLoop_FirstOnly(f, conditions, i, ua) ==
    LET p == DictGet(f, "parameters", JNull)
        on(n) == Returned(Result(DictGet(f, "key", JNull), TRUE,
                                 IF Truthy(p) THEN p ELSE EmptyDict), n)
    IN  IF i > Len(conditions) THEN on(i - 1)
        ELSE LET m == matches_condition(conditions[i], ua)
             IN  IF m = Raise THEN Raised(i)
                 ELSE IF ~Truthy(m)
                      THEN Returned(Result(DictGet(f, "key", JNull), FALSE, EmptyDict), i)
                      ELSE on(i)

\* for cond in conditions: ... return (lines 80-93); i is the next index
RECURSIVE ConditionLoop(_, _, _, _)
ConditionLoop(f, conditions, i, ua) ==
    IF i > Len(conditions)
    THEN LET p == DictGet(f, "parameters", JNull)
         IN  Returned(Result(DictGet(f, "key", JNull), TRUE,
                             IF Truthy(p) THEN p ELSE EmptyDict), i - 1)
    ELSE LET m == matches_condition(conditions[i], ua)
         IN  IF m = Raise THEN Raised(i)
             ELSE IF ~Truthy(m)
                  THEN Returned(Result(DictGet(f, "key", JNull), FALSE, EmptyDict), i)
                  ELSE ConditionLoop(f, conditions, i + 1, ua)

\* Mutant: the kill switch is tested after the condition loop
evaluate_flag_KillSwitchLast(f, ua) ==
    LET c == DictGet(f, "conditions", JNull)
        conditions == IF Truthy(c) THEN c[2] ELSE <<>>
        r == ConditionLoop(f, conditions, 1, ua)
    IN  IF r.outcome = "raise" THEN r
        ELSE IF ~Truthy(DictGet(f, "enabled", JBool(FALSE)))
             THEN Returned(Result(DictGet(f, "key", JNull), FALSE, EmptyDict), r.examined)
             ELSE r

evaluate_flag(f, ua) ==
    IF ~Truthy(DictGet(f, "enabled", JBool(FALSE)))
    THEN Returned(Result(DictGet(f, "key", JNull), FALSE, EmptyDict), 0)
    ELSE LET c == DictGet(f, "conditions", JNull)
             conditions == IF Truthy(c) THEN c[2] ELSE <<>>
         IN  ConditionLoop(f, conditions, 1, ua)

-----------------------------------------------------------------------------
(* Inputs of the evaluation engine *)

MaxConds == 2

Cond(a, o, v) == JObj([attribute |-> JStr(a), operator |-> JStr(o), value |-> v])

\* Condition records as the data model describes them, plus records with a
\* field missing (cond.get then yields None)
CondPool ==
    { Cond("country", "equals", JStr("CA")),
      Cond("country", "in", JList(<<JStr("CA"), JStr("US")>>)),
      Cond("country", "in", JList(<<>>)),
      Cond("country", "in", JStr("CA")),
      Cond("country", "gte", JStr("CA")),
      Cond("plan", "equals", JNum(1)),
      Cond("plan", "equals", JStr("pro")),
      Cond("plan", "in", JList(<<JNum(1), JStr("pro")>>)),
      JObj([operator |-> JStr("equals"), value |-> JStr("CA")]),
      JObj([attribute |-> JStr("country"), value |-> JStr("CA")]),
      JObj([attribute |-> JStr("plan"), operator |-> JStr("equals")]) }

\* items that are no condition records: a bare string, an unhashable attribute
MalformedPool ==
    { JStr("oops"),
      JObj([attribute |-> JList(<<>>), operator |-> JStr("equals"), value |-> JStr("CA")]) }

AnyCondPool ==
    { Cond("country", "equals", JStr("CA")),
      Cond("plan", "in", JList(<<JNum(1), JStr("pro")>>)),
      Cond("country", "gte", JStr("CA")),
      JObj([attribute |-> JStr("plan"), operator |-> JStr("equals")]) } \cup MalformedPool

SeqsUpTo(S, n) == UNION { [1..k -> S] : k \in 0..n }

ParamPool == { EmptyDict, JObj([discount |-> JNum(40)]) }

FlagDict(k, e, c, p) == JObj([key |-> k, enabled |-> e, conditions |-> c, parameters |-> p])

\* FlagDefinition: key string, enabled bool, conditions list of records, parameters mapping
FlagDefs ==
    { FlagDict(JStr("promo"), JBool(e), JList(c), p) :
        e \in BOOLEAN, c \in SeqsUpTo(CondPool, MaxConds), p \in ParamPool }

\* any dict a caller may hand to evaluate_flag
AnyFlags ==
    { FlagDict(JStr("promo"), e, JList(c), p) :
        e \in {JBool(TRUE), JBool(FALSE), JNull},
        c \in SeqsUpTo(AnyCondPool, MaxConds),
        p \in ParamPool \cup {JNull} }

AttrNames == {"country", "plan"}
AttrVals == { JStr("CA"), JStr("pro"), JBool(TRUE), JNull }

UserAttrs == { JObj(f) : f \in UNION { [S -> AttrVals] : S \in SUBSET AttrNames } }

NoResult == [outcome |-> "none", value |-> Result(JNull, FALSE, EmptyDict), examined |-> 0]

Strip(r) == [outcome |-> r.outcome, value |-> r.value]

Orderings(n) == { p \in [1..n -> 1..n] : \A i, j \in 1..n : p[i] = p[j] => i = j }

Conditions(f) == f[2].conditions[2]

\* the flag with its condition list reordered by p
Reordered(f, p) ==
    JObj([f[2] EXCEPT !.conditions = JList([i \in 1..Len(Conditions(f)) |-> Conditions(f)[p[i]]])])

-----------------------------------------------------------------------------
(* services/clients_service.py: API keys *)

API_KEY_PREFIX == "nf_live_"

\* a header value: the text before and after the position len(API_KEY_PREFIX)
ApiKey(prefix, rest) == <<prefix, rest>>

\* hashlib.sha256(api_key).hexdigest(): injective on the keys of the model
hash_api_key(api_key) == <<"sha256", api_key[1], api_key[2]>>

startswith(api_key, prefix) == api_key[1] = prefix

KeyA == ApiKey(API_KEY_PREFIX, "tokA")
KeyB == ApiKey(API_KEY_PREFIX, "tokB")
KeyC == ApiKey(API_KEY_PREFIX, "tokC")
KeyWrongPrefix == ApiKey("nf_test_", "tokA")

ApiKeyPool == { KeyA, KeyB, KeyC, KeyWrongPrefix }

\* a str whose characters matter is the sequence of its characters
EmailA == <<"a", "@", "x">>
EmailB == <<"b", "@", "x">>
EmailC == <<"c", "@", "x">>

\* bcrypt.gensalt(): a fresh salt, seeded by n
gensalt(n) == <<"salt", n>>

\* hash_password: ValueError on the empty password, else
\* bcrypt.hashpw(password, salt)
hash_password(plain_password, salt) ==
    IF plain_password = "" THEN <<"raise">> ELSE <<"bcrypt", salt, plain_password>>

\* verify_password: bcrypt.checkpw recomputes the digest with the salt of
\* the stored hash
verify_password(plain_password, password_hash) ==
    IF plain_password = "" \/ password_hash = <<>> THEN FALSE
    ELSE hash_password(plain_password, password_hash[2]) = password_hash

\* the password a tenant of the initial table signed up with
SeedPassword(id) == IF id = "A" THEN "pwA" ELSE IF id = "B" THEN "pwB" ELSE "pwC"

ClientRow(id, email, api_key, active) ==
    [id |-> id, email |-> email, password_hash |-> hash_password(SeedPassword(id), gensalt(0)),
     api_key_hash |-> hash_api_key(api_key), subscription_tier |-> "free",
     active |-> active, created_at |-> 0]

\* the fields of the frozen dataclass Client
ClientFields == { "id", "email", "subscription_tier", "active", "created_at" }

\* Client(**kwargs): the instance, or TypeError on an unexpected or missing
\* keyword argument
Client(kwargs) == IF DOMAIN kwargs = ClientFields THEN <<"Client", kwargs>> ELSE <<"raise">>

\* a call of a repository function: the table it queries, the function, the
\* client_id argument ("none": it takes none) and its other argument
Call(table, op, client_id, arg) == [table |-> table, op |-> op, client_id |-> client_id, arg |-> arg]

\* clients_repo.get_client_by_api_key_hash: the rows selected
get_client_by_api_key_hash(api_key_hash) ==
    { c \in clients : c.api_key_hash = api_key_hash }

\* Mutant: the lookup is made first and the prefix is tested afterwards
resolve_client_by_api_key_LookupFirst(api_key) ==
    LET api_key_hash == hash_api_key(api_key)
        row == get_client_by_api_key_hash(api_key_hash)
        look == <<Call("clients", "get_client_by_api_key_hash", "none", api_key_hash)>>
    IN  IF api_key = ApiKey("", "") THEN [client |-> {}, calls |-> look]
        ELSE IF ~startswith(api_key, API_KEY_PREFIX) THEN [client |-> {}, calls |-> look]
        ELSE [client |-> { c \in row : c.active }, calls |-> look]

\* Mutant: the `active` column of the row found is not tested
resolve_client_by_api_key_IgnoreActive(api_key) ==
    IF api_key = ApiKey("", "") THEN [client |-> {}, calls |-> <<>>]
    ELSE IF ~startswith(api_key, API_KEY_PREFIX) THEN [client |-> {}, calls |-> <<>>]
    ELSE LET api_key_hash == hash_api_key(api_key)
             row == get_client_by_api_key_hash(api_key_hash)
         IN  [client |-> row,
              calls |-> <<Call("clients", "get_client_by_api_key_hash", "none", api_key_hash)>>]

\* resolve_client_by_api_key: client is the set holding the row the Client
\* returned is built from (empty for None), calls the repository calls made
resolve_client_by_api_key(api_key) ==
    IF api_key = ApiKey("", "") THEN [client |-> {}, calls |-> <<>>]
    ELSE IF ~startswith(api_key, API_KEY_PREFIX) THEN [client |-> {}, calls |-> <<>>]
    ELSE LET api_key_hash == hash_api_key(api_key)
             row == get_client_by_api_key_hash(api_key_hash)
         IN  [client |-> { c \in row : c.active },
              calls |-> <<Call("clients", "get_client_by_api_key_hash", "none", api_key_hash)>>]

ClientIds == { "A", "B", "C" }

\* clients_repo.get_client_by_id: the rows selected
get_client_by_id(client_id) == { c \in clients : c.id = client_id }

-----------------------------------------------------------------------------
(* services/sessions_service.py, table sessions *)

hash_token(raw_token) == <<"sha256", raw_token>>

SessionRow(id, client_id, raw_token, expires_at, revoked) ==
    [id |-> id, client_id |-> client_id, token_hash |-> hash_token(raw_token),
     created_at |-> 0, expires_at |-> expires_at, revoked |-> revoked]

\* the session of a token: looked up by the digest of the token, absent when
\* no row matches, when the row has expired at time t, or when it is revoked
get_session_for_token(raw_token, t) ==
    { s \in sessions : s.token_hash = hash_token(raw_token) /\ s.expires_at > t /\ ~s.revoked }

get_active_session_for_token(raw_token, t) ==
    { s \in sessions : s.token_hash = hash_token(raw_token) /\ s.expires_at > t /\ ~s.revoked }

-----------------------------------------------------------------------------
(* repositories/postgres_flags_repo.py *)

uuid4(n) == <<"uuid", n>>

\* Mutant: the conflicting row is replaced by the row proposed for insertion
Upserted_Replace(hit, client_id, key, enabled, conditions, parameters, t) ==
    [id |-> uuid4(t), client_id |-> client_id, key |-> key,
     enabled |-> enabled, conditions |-> conditions, parameters |-> parameters,
     created_at |-> t, updated_at |-> t]

\* the row an upsert writes: a fresh one, or the conflicting one updated
Upserted(hit, client_id, key, enabled, conditions, parameters, t) ==
    IF hit = {}
    THEN [id |-> uuid4(t), client_id |-> client_id, key |-> key,
          enabled |-> enabled, conditions |-> conditions, parameters |-> parameters,
          created_at |-> t, updated_at |-> t]
    ELSE [(CHOOSE r \in hit : TRUE) EXCEPT !.enabled = enabled, !.conditions = conditions,
                                           !.parameters = parameters, !.updated_at = t]

\* Mutant: ON CONFLICT (key): the row of any tenant with that key is updated
upsert_flag_ConflictOnKey(store, client_id, flag_data, t) ==
    LET key == flag_data[2].key
        hit == { r \in store : r.key = key }
        row == Upserted(hit, client_id, key, flag_data[2].enabled,
                        DictGet(flag_data, "conditions", JList(<<>>)),
                        DictGet(flag_data, "parameters", EmptyDict), t)
    IN  [table |-> (store \ hit) \cup {row}, row |-> row]

\* Mutant: the update keeps the stored conditions and parameters when the
\* payload has none (a merge with the previous values)
upsert_flag_Merge(store, client_id, flag_data, t) ==
    LET key == flag_data[2].key
        hit == { r \in store : r.client_id = client_id /\ r.key = key }
        old == CHOOSE r \in hit : TRUE
        row == Upserted(hit, client_id, key, flag_data[2].enabled,
                        DictGet(flag_data, "conditions",
                                IF hit = {} THEN JList(<<>>) ELSE old.conditions),
                        DictGet(flag_data, "parameters",
                                IF hit = {} THEN EmptyDict ELSE old.parameters), t)
    IN  [table |-> (store \ hit) \cup {row}, row |-> row]

\* upsert_flag: INSERT ... ON CONFLICT (client_id, key) DO UPDATE SET ...
\* RETURNING *; t is NOW() and seeds uuid4(). The table after it and the row returned
upsert_flag(store, client_id, flag_data, t) ==
    LET key == flag_data[2].key
        hit == { r \in store : r.client_id = client_id /\ r.key = key }
        row == Upserted(hit, client_id, key, flag_data[2].enabled,
                        DictGet(flag_data, "conditions", JList(<<>>)),
                        DictGet(flag_data, "parameters", EmptyDict), t)
    IN  [table |-> (store \ hit) \cup {row}, row |-> row]

\* Mutant: a dirty read: the parameters column is read from the row version
\* that a transaction in progress has written and not committed
get_flag_by_key_DirtyParameters(store, client_id, key) ==
    LET dirty == { u \in UNION { workers[w].row : w \in { o \in DOMAIN workers :
                                                          workers[o].pc = "executed" } } :
                       u.client_id = client_id /\ u.key = key }
    IN  { IF dirty = {} THEN r ELSE [r EXCEPT !.parameters = (CHOOSE u \in dirty : TRUE).parameters] :
            r \in { q \in store : q.client_id = client_id /\ q.key = key } }

\* Mutant: the lookup is by key alone (as in repositories/memory_repo.py)
get_flag_by_key_AnyTenant(store, client_id, key) ==
    { r \in store : r.key = key }

\* get_flag_by_key: SELECT * FROM flags WHERE client_id = .. AND key = ..
get_flag_by_key(store, client_id, key) ==
    { r \in store : r.client_id = client_id /\ r.key = key }

KeyPool == { JStr("beta"), JStr("promo") }

\* ORDER BY key on the keys of the model
KeyRank(key) == IF key = JStr("beta") THEN 1 ELSE 2

RECURSIVE SortByKey(_)
SortByKey(rows) ==
    IF rows = {} THEN <<>>
    ELSE LET first == CHOOSE r \in rows : \A q \in rows : KeyRank(r.key) <= KeyRank(q.key)
         IN  <<first>> \o SortByKey(rows \ {first})

\* list_flags_for_client: ... ORDER BY key LIMIT .. OFFSET ..
list_flags_for_client(store, client_id, limit, offset) ==
    LET sorted == SortByKey({ r \in store : r.client_id = client_id })
    IN  SubSeq(sorted, offset + 1,
               IF offset + limit < Len(sorted) THEN offset + limit ELSE Len(sorted))

\* delete_flag: DELETE FROM flags WHERE client_id = .. AND key = ..; the table after it
delete_flag(store, client_id, key) ==
    { r \in store : ~(r.client_id = client_id /\ r.key = key) }

\* cur.fetchone(): the row of a result set of at most one row
fetchone(rows) == CHOOSE r \in rows : TRUE

-----------------------------------------------------------------------------
(* validators: request bodies *)

\* flag_config.schema.json: key and enabled required, conditions a list of
\* records, parameters an object
validate_flag_config(payload) ==
    /\ IsDict(payload)
    /\ {"key", "enabled"} \subseteq DOMAIN payload[2]
    /\ IsStr(payload[2].key)
    /\ payload[2].enabled[1] = "bool"
    /\ "conditions" \in DOMAIN payload[2] =>
          /\ IsList(payload[2].conditions)
          /\ \A i \in 1..Len(payload[2].conditions[2]) : IsDict(payload[2].conditions[2][i])
    /\ "parameters" \in DOMAIN payload[2] => IsDict(payload[2].parameters)

\* EvaluateRequest.schema.json: flag_key a string, user_attributes an object
validate_eval_payload(payload) ==
    /\ IsDict(payload)
    /\ {"flag_key", "user_attributes"} \subseteq DOMAIN payload[2]
    /\ IsStr(payload[2].flag_key)
    /\ IsDict(payload[2].user_attributes)

-----------------------------------------------------------------------------
(* services/clients_service.py: session tokens *)

\* resolve_client_by_session_token at time t: client is the set holding the
\* row the Client returned is built from (empty for None), calls the
\* repository calls made
resolve_client_by_session_token(raw_token, t) ==
    IF raw_token = "" THEN [client |-> {}, calls |-> <<>>]
    ELSE LET session == get_active_session_for_token(raw_token, t)
             look == Call("sessions", "get_active_session_for_token", "none", hash_token(raw_token))
         IN  IF session = {} THEN [client |-> {}, calls |-> <<look>>]
             ELSE LET client_id == fetchone(session).client_id
                      row == get_client_by_id(client_id)
                      both == <<look, Call("clients", "get_client_by_id", "none", <<client_id>>)>>
                  IN  IF row = {} THEN [client |-> {}, calls |-> both]
                      ELSE IF ~fetchone(row).active THEN [client |-> {}, calls |-> both]
                      ELSE [client |-> row, calls |-> both]

-----------------------------------------------------------------------------
(* HTTP layer: blueprints/admin/flags_admin.py, blueprints/flags/evaluate.py *)

MaxClock == 2

isoformat(t) == <<"iso", t>>
str(id) == <<"str", id>>

\* _serialize_flag
serialize_flag(row) ==
    [id |-> str(row.id), key |-> row.key, enabled |-> row.enabled,
     conditions |-> row.conditions, parameters |-> row.parameters,
     created_at |-> isoformat(row.created_at), updated_at |-> isoformat(row.updated_at)]

Response(status, body) == [status |-> status, body |-> body]

Unauthorized ==
    Response(401, <<[error |-> "Invalide or missing API key", code |-> "auth.api_key_invalid"]>>)
BadRequest == Response(400, <<[error |-> "BadRequest"]>>)
EvalNotFound == Response(404, <<[error |-> "NotFound"]>>)
FlagNotFound == Response(404, <<[error |-> "Flag not found", code |-> "flags.not_found"]>>)
InternalServerError == Response(500, <<[error |-> "InternalServerError"]>>)

NoPayload == EmptyDict

NoKey == JNull

Request(endpoint, api_key, key, payload, limit, offset) ==
    [endpoint |-> endpoint, api_key |-> api_key, session_token |-> "", key |-> key,
     payload |-> payload, limit |-> limit, offset |-> offset]

\* a request carrying X-Session-Token
SessionRequest(endpoint, raw_token) ==
    [endpoint |-> endpoint, api_key |-> ApiKey("", ""), session_token |-> raw_token,
     key |-> NoKey, payload |-> NoPayload, limit |-> 0, offset |-> 0]

NoEval == [client_id |-> "none", key |-> NoKey, ua |-> EmptyDict,
           response |-> Response(0, <<>>), times |-> 0]

\* bodies of POST /admin/flags/
FlagConfigs(keys) ==
    { JObj([key |-> k, enabled |-> JBool(TRUE),
            conditions |-> JList(<<Cond("country", "equals", JStr("CA"))>>),
            parameters |-> JObj([discount |-> JNum(40)])]) : k \in keys }
    \cup { JObj([key |-> k, enabled |-> JBool(FALSE)]) : k \in keys }

UpsertPayloads == FlagConfigs(KeyPool) \cup { NoPayload }

\* bodies of POST /evaluate/
EvalRequests(keys) ==
    { JObj([flag_key |-> k, user_attributes |-> ua]) :
        k \in keys, ua \in { EmptyDict, JObj([country |-> JStr("CA")]) } }

EvalPayloads == EvalRequests(KeyPool) \cup { NoPayload }

\* ?limit=&offset= of GET /admin/flags/
Pages == { <<50, 0>>, <<1, 1>> }

\* require_api_key answering 401: the view is not called
Reject(req, gate) ==
    /\ request' = req
    /\ g_client_id' = "none"
    /\ fetched' = {}
    /\ calls' = gate.calls
    /\ response' = Unauthorized
    /\ UNCHANGED <<clients, flags, now>>

\* Mutant: the tenant is taken from the request body when the body names one
PostUpsertFlag_ClientIdFromBody(api_key, payload) ==
    LET req == Request("upsert", api_key, NoKey, payload, 0, 0)
        gate == resolve_client_by_api_key(api_key)
        client == gate.client
    IN  /\ now < MaxClock
        /\ IF client = {} THEN Reject(req, gate)
           ELSE LET named == DictGet(payload, "client_id", JStr(fetchone(client).id))
                    client_id == named[2]
                IN  /\ request' = req
                    /\ g_client_id' = fetchone(client).id
                    /\ UNCHANGED clients
                    /\ IF ~validate_flag_config(payload)
                       THEN /\ response' = BadRequest
                            /\ fetched' = {}
                            /\ calls' = gate.calls
                            /\ UNCHANGED <<flags, now>>
                       ELSE /\ now' = now + 1
                            /\ calls' = Append(gate.calls,
                                    Call("flags", "upsert_flag", client_id, payload[2].key))
                            /\ LET done == upsert_flag(flags, client_id, payload, now + 1)
                               IN  /\ flags' = done.table
                                   /\ fetched' = {done.row}
                                   /\ response' = Response(200, <<serialize_flag(done.row)>>)

\* Mutant: the body is validated before the API key is looked at
PostUpsertFlag_ValidateFirst(api_key, payload) ==
    LET req == Request("upsert", api_key, NoKey, payload, 0, 0)
        gate == resolve_client_by_api_key(api_key)
        client == gate.client
    IN  /\ now < MaxClock
        /\ IF ~validate_flag_config(payload)
           THEN /\ request' = req
                /\ g_client_id' = "none"
                /\ response' = BadRequest
                /\ fetched' = {}
                /\ calls' = <<>>
                /\ UNCHANGED <<clients, flags, now>>
           ELSE IF client = {} THEN Reject(req, gate)
           ELSE LET client_id == fetchone(client).id
                    done == upsert_flag(flags, client_id, payload, now + 1)
                IN  /\ request' = req
                    /\ g_client_id' = client_id
                    /\ UNCHANGED clients
                    /\ now' = now + 1
                    /\ calls' = Append(gate.calls,
                            Call("flags", "upsert_flag", client_id, payload[2].key))
                    /\ flags' = done.table
                    /\ fetched' = {done.row}
                    /\ response' = Response(200, <<serialize_flag(done.row)>>)

\* POST /admin/flags/ : require_api_key, post_upsert_flag
PostUpsertFlag(api_key, payload) ==
    LET req == Request("upsert", api_key, NoKey, payload, 0, 0)
        gate == resolve_client_by_api_key(api_key)
        client == gate.client
    IN  /\ now < MaxClock
        /\ IF client = {} THEN Reject(req, gate)
           ELSE LET client_id == fetchone(client).id
                IN  /\ request' = req
                    /\ g_client_id' = client_id
                    /\ UNCHANGED clients
                    /\ IF ~validate_flag_config(payload)
                       THEN /\ response' = BadRequest
                            /\ fetched' = {}
                            /\ calls' = gate.calls
                            /\ UNCHANGED <<flags, now>>
                       ELSE /\ now' = now + 1
                            /\ calls' = Append(gate.calls,
                                    Call("flags", "upsert_flag", client_id, payload[2].key))
                            /\ LET done == upsert_flag(flags, client_id, payload, now + 1)
                               IN  /\ flags' = done.table
                                   /\ fetched' = {done.row}
                                   /\ response' = Response(200, <<serialize_flag(done.row)>>)

\* GET /admin/flags/ : require_api_key, list_flags
ListFlags(api_key, page) ==
    LET req == Request("list", api_key, NoKey, NoPayload, page[1], page[2])
        gate == resolve_client_by_api_key(api_key)
        client == gate.client
    IN  IF client = {} THEN Reject(req, gate)
        ELSE LET client_id == fetchone(client).id
                 rows == list_flags_for_client(flags, client_id, page[1], page[2])
             IN  /\ request' = req
                 /\ g_client_id' = client_id
                 /\ fetched' = { rows[i] : i \in 1..Len(rows) }
                 /\ calls' = Append(gate.calls,
                         Call("flags", "list_flags_for_client", client_id, <<page[1], page[2]>>))
                 /\ response' = Response(200, [i \in 1..Len(rows) |-> serialize_flag(rows[i])])
                 /\ UNCHANGED <<clients, flags, now>>

\* GET /admin/flags/<key> : require_api_key, get_flag_by_key
GetFlagByKey(api_key, key) ==
    LET req == Request("get", api_key, key, NoPayload, 0, 0)
        gate == resolve_client_by_api_key(api_key)
        client == gate.client
    IN  IF client = {} THEN Reject(req, gate)
        ELSE LET client_id == fetchone(client).id
                 row == get_flag_by_key(flags, client_id, key)
             IN  /\ request' = req
                 /\ g_client_id' = client_id
                 /\ fetched' = row
                 /\ calls' = Append(gate.calls, Call("flags", "get_flag_by_key", client_id, key))
                 /\ response' = IF row = {} THEN FlagNotFound
                                ELSE Response(200, <<serialize_flag(fetchone(row))>>)
                 /\ UNCHANGED <<clients, flags, now>>

\* Mutant: the stricter behaviour the docstring mentions: 404 when the flag
\* does not exist
DeleteFlag_NotFoundWhenAbsent(api_key, key) ==
    LET req == Request("delete", api_key, key, NoPayload, 0, 0)
        gate == resolve_client_by_api_key(api_key)
        client == gate.client
    IN  IF client = {} THEN Reject(req, gate)
        ELSE LET client_id == fetchone(client).id
             IN  /\ request' = req
                 /\ g_client_id' = client_id
                 /\ flags' = delete_flag(flags, client_id, key)
                 /\ fetched' = {}
                 /\ calls' = Append(gate.calls, Call("flags", "delete_flag", client_id, key))
                 /\ response' = IF get_flag_by_key(flags, client_id, key) = {}
                                THEN FlagNotFound ELSE Response(204, <<>>)
                 /\ UNCHANGED <<clients, now>>

\* DELETE /admin/flags/<key> : require_api_key, delete_flag
DeleteFlag(api_key, key) ==
    LET req == Request("delete", api_key, key, NoPayload, 0, 0)
        gate == resolve_client_by_api_key(api_key)
        client == gate.client
    IN  IF client = {} THEN Reject(req, gate)
        ELSE LET client_id == fetchone(client).id
             IN  /\ request' = req
                 /\ g_client_id' = client_id
                 /\ flags' = delete_flag(flags, client_id, key)
                 /\ fetched' = {}
                 /\ calls' = Append(gate.calls, Call("flags", "delete_flag", client_id, key))
                 /\ response' = Response(204, <<>>)
                 /\ UNCHANGED <<clients, now>>

\* Mutant: the view keeps the body of the previous evaluation and answers with
\* it while evaluations follow one another (a cache that ignores its key)
PostEvaluate_StaleCache(api_key, payload) ==
    LET req == Request("evaluate", api_key, NoKey, payload, 0, 0)
        gate == resolve_client_by_api_key(api_key)
        client == gate.client
    IN  IF client = {} THEN Reject(req, gate)
        ELSE LET client_id == fetchone(client).id
             IN  /\ request' = req
                 /\ g_client_id' = client_id
                 /\ UNCHANGED <<clients, flags, now>>
                 /\ IF ~validate_eval_payload(payload)
                    THEN /\ response' = BadRequest
                         /\ fetched' = {}
                         /\ calls' = gate.calls
                    ELSE LET flag_key == payload[2].flag_key
                             ua == payload[2].user_attributes
                             row == get_flag_by_key(flags, client_id, flag_key)
                             r == evaluate_flag(JObj(fetchone(row)), ua)
                         IN  /\ fetched' = row
                             /\ calls' = Append(gate.calls,
                                     Call("flags", "get_flag_by_key", client_id, flag_key))
                             /\ response' =
                                  IF row = {} THEN EvalNotFound
                                  ELSE IF request.endpoint = "evaluate" /\ response.status = 200
                                  THEN response
                                  ELSE IF r.outcome = "raise" THEN InternalServerError
                                  ELSE Response(200, <<r.value>>)

\* Mutant: a flag that evaluates to off is answered like a missing one
PostEvaluate_NotFoundWhenOff(api_key, payload) ==
    LET req == Request("evaluate", api_key, NoKey, payload, 0, 0)
        gate == resolve_client_by_api_key(api_key)
        client == gate.client
    IN  IF client = {} THEN Reject(req, gate)
        ELSE LET client_id == fetchone(client).id
             IN  /\ request' = req
                 /\ g_client_id' = client_id
                 /\ UNCHANGED <<clients, flags, now>>
                 /\ IF ~validate_eval_payload(payload)
                    THEN /\ response' = BadRequest
                         /\ fetched' = {}
                         /\ calls' = gate.calls
                    ELSE LET flag_key == payload[2].flag_key
                             ua == payload[2].user_attributes
                             row == get_flag_by_key(flags, client_id, flag_key)
                             r == evaluate_flag(JObj(fetchone(row)), ua)
                         IN  /\ fetched' = row
                             /\ calls' = Append(gate.calls,
                                     Call("flags", "get_flag_by_key", client_id, flag_key))
                             /\ response' =
                                  IF row = {} THEN EvalNotFound
                                  ELSE IF r.outcome = "raise" THEN InternalServerError
                                  ELSE IF ~r.value.enabled THEN EvalNotFound
                                  ELSE Response(200, <<r.value>>)

\* POST /evaluate/ : require_api_key, post_evaluate
PostEvaluate(api_key, payload) ==
    LET req == Request("evaluate", api_key, NoKey, payload, 0, 0)
        gate == resolve_client_by_api_key(api_key)
        client == gate.client
    IN  IF client = {} THEN Reject(req, gate)
        ELSE LET client_id == fetchone(client).id
             IN  /\ request' = req
                 /\ g_client_id' = client_id
                 /\ UNCHANGED <<clients, flags, now>>
                 /\ IF ~validate_eval_payload(payload)
                    THEN /\ response' = BadRequest
                         /\ fetched' = {}
                         /\ calls' = gate.calls
                    ELSE LET flag_key == payload[2].flag_key
                             ua == payload[2].user_attributes
                             row == get_flag_by_key(flags, client_id, flag_key)
                             r == evaluate_flag(JObj(fetchone(row)), ua)
                         IN  /\ fetched' = row
                             /\ calls' = Append(gate.calls,
                                     Call("flags", "get_flag_by_key", client_id, flag_key))
                             /\ response' =
                                  IF row = {} THEN EvalNotFound
                                  ELSE IF r.outcome = "raise" THEN InternalServerError
                                  ELSE Response(200, <<r.value>>)

-----------------------------------------------------------------------------
(* services/auth_service.py: require_session; session resolution called directly *)

SessionMissing ==
    Response(401, <<[error |-> "Invalid or missing session token", code |-> "auth.session_missing"]>>)
SessionInvalid ==
    Response(401, <<[error |-> "Invalid or expired session token", code |-> "auth.session_invalid"]>>)
SessionClientMissing ==
    Response(401, <<[error |-> "Client not found for session",
                     code |-> "auth.session_client_missing"]>>)

\* the response of the view that require_session wraps
ViewResponse(client_id) == Response(200, <<[view |-> "called", client_id |-> client_id]>>)

\* a request to a view wrapped by require_session
RequireSession(raw_token) ==
    LET session == get_session_for_token(raw_token, now)
        look == Call("sessions", "get_session_for_token", "none", hash_token(raw_token))
        answer(resp, made, cid) ==
            /\ response' = resp
            /\ calls' = made
            /\ g_client_id' = cid
    IN  /\ request' = SessionRequest("session_view", raw_token)
        /\ fetched' = {}
        /\ UNCHANGED <<clients, flags, now, sessions, resolved>>
        /\ IF raw_token = "" THEN answer(SessionMissing, <<>>, "none")
           ELSE IF session = {} THEN answer(SessionInvalid, <<look>>, "none")
           ELSE LET client_id == fetchone(session).client_id
                    rows == get_client_by_id(client_id)
                    both == <<look, Call("clients", "get_client_by_id", "none", <<client_id>>)>>
                IN  IF rows = {} THEN answer(SessionClientMissing, both, "none")
                    ELSE LET row == fetchone(rows)
                             client == Client([id |-> row.id, email |-> row.email,
                                               password_hash |-> row.password_hash,
                                               api_key_hash |-> row.api_key_hash,
                                               subscription_tier |-> row.subscription_tier,
                                               active |-> row.active,
                                               created_at |-> row.created_at])
                         IN  IF client = <<"raise">>
                             THEN answer(InternalServerError, both, "none")
                             ELSE answer(ViewResponse(client[2].id), both, client[2].id)

\* resolve_client_by_session_token(raw_token) called on its own
ResolveSessionToken(raw_token) ==
    LET r == resolve_client_by_session_token(raw_token, now)
    IN  /\ request' = SessionRequest("resolve_session", raw_token)
        /\ resolved' = r.client
        /\ calls' = r.calls
        /\ g_client_id' = "none"
        /\ fetched' = {}
        /\ response' = Response(0, <<>>)
        /\ UNCHANGED <<clients, flags, now, sessions>>

\* resolve_client_by_api_key(api_key) called on its own
ResolveApiKey(api_key) ==
    LET r == resolve_client_by_api_key(api_key)
    IN  /\ request' = Request("resolve_api_key", api_key, NoKey, NoPayload, 0, 0)
        /\ resolved' = r.client
        /\ calls' = r.calls
        /\ g_client_id' = "none"
        /\ fetched' = {}
        /\ response' = Response(0, <<>>)
        /\ UNCHANGED <<clients, flags, now, sessions>>

\* session tokens of the model
TokenPool == { "", "nsess_a", "nsess_a_short", "nsess_b_revoked", "nsess_c", "nsess_d", "nsess_x" }

\* a live and a short-lived session of A, a revoked one of B, a live one of
\* the inactive C, and one read before its client D was removed
InitSessions ==
    { SessionRow("s1", "A", "nsess_a", MaxClock + 2, FALSE),
      SessionRow("s2", "A", "nsess_a_short", 1, FALSE),
      SessionRow("s3", "B", "nsess_b_revoked", MaxClock + 2, TRUE),
      SessionRow("s4", "C", "nsess_c", MaxClock + 2, FALSE),
      SessionRow("s5", "D", "nsess_d", MaxClock + 2, FALSE) }

\* the server's workers, each handling one request at a time
Workers == { "w1", "w2" }

IdleWorker ==
    [pc |-> "idle", client_id |-> "none", payload |-> NoPayload, hit |-> {}, row |-> {},
     status |-> 0, raced |-> FALSE]

\* the ledger entry of a (tenant, key) never written
NoWrite == [state |-> "never", payload |-> NoPayload, times |-> 0]

\* everything but table flags
InitRest ==
    /\ clients = { ClientRow("A", EmailA, KeyA, TRUE),
                   ClientRow("B", EmailB, KeyB, TRUE),
                   ClientRow("C", EmailC, KeyC, FALSE) }
    /\ now = 0
    /\ request = Request("none", ApiKey("", ""), NoKey, NoPayload, 0, 0)
    /\ g_client_id = "none"
    /\ fetched = {}
    /\ response = Response(0, <<>>)
    /\ calls = <<>>
    /\ sessions = InitSessions
    /\ resolved = {}
    /\ lastEval = NoEval
    /\ ledger = [tk \in ClientIds \X KeyPool |-> NoWrite]
    /\ workers = [w \in Workers |-> IdleWorker]

InitStore ==
    /\ InitRest
    /\ flags = {}

Init ==
    /\ InitStore
    /\ flag = FlagDict(JStr("promo"), JBool(FALSE), JList(<<>>), EmptyDict)
    /\ user_attributes = EmptyDict
    /\ pc = "idle"
    /\ result = NoResult
    /\ permResults = {}

Next ==
    \/ \E k \in ApiKeyPool, p \in UpsertPayloads :
          PostUpsertFlag(k, p) /\ UNCHANGED histVars /\ UNCHANGED sessVars /\ UNCHANGED evalVars
    \/ \E k \in ApiKeyPool, pg \in Pages :
          ListFlags(k, pg) /\ UNCHANGED histVars /\ UNCHANGED sessVars /\ UNCHANGED evalVars
    \/ \E k \in ApiKeyPool, key \in KeyPool :
          GetFlagByKey(k, key) /\ UNCHANGED histVars /\ UNCHANGED sessVars /\ UNCHANGED evalVars
    \/ \E k \in ApiKeyPool, key \in KeyPool :
          DeleteFlag(k, key) /\ UNCHANGED histVars /\ UNCHANGED sessVars /\ UNCHANGED evalVars
    \/ \E k \in ApiKeyPool, p \in EvalPayloads :
          PostEvaluate(k, p) /\ UNCHANGED histVars /\ UNCHANGED sessVars /\ UNCHANGED evalVars

Spec == Init /\ [][Next]_vars

-----------------------------------------------------------------------------
(* The same endpoints with the history of answered evaluations recorded *)

HistKeys == { JStr("promo") }
HistApiKeys == { KeyA, KeyB }

\* the (tenant, key) the request just handled has written, if any
Written ==
    IF request'.endpoint = "upsert" /\ response'.status = 200
    THEN <<g_client_id', request'.payload[2].key>>
    ELSE IF request'.endpoint = "delete" /\ response'.status = 204
    THEN <<g_client_id', request'.key>>
    ELSE <<"none", NoKey>>

\* a write to a flag ends the run of evaluations of that flag
RecordWrite ==
    lastEval' = IF <<lastEval.client_id, lastEval.key>> = Written THEN NoEval ELSE lastEval

\* an answered evaluation is remembered, with how often it was repeated (1, 2)
RecordEval ==
    lastEval' =
        IF response'.status \in {200, 404}
        THEN LET key == request'.payload[2].flag_key
                 ua == request'.payload[2].user_attributes
             IN  [client_id |-> g_client_id', key |-> key, ua |-> ua,
                  response |-> response',
                  times |-> IF /\ lastEval.client_id = g_client_id'
                               /\ lastEval.key = key
                               /\ lastEval.ua = ua
                            THEN 2 ELSE 1]
        ELSE lastEval

NextHist ==
    \/ \E k \in HistApiKeys, p \in FlagConfigs(HistKeys) :
          PostUpsertFlag(k, p) /\ RecordWrite /\ UNCHANGED <<ledger, sessions, resolved, workers>> /\ UNCHANGED evalVars
    \/ \E k \in HistApiKeys :
          ListFlags(k, <<50, 0>>) /\ UNCHANGED histVars /\ UNCHANGED sessVars /\ UNCHANGED evalVars
    \/ \E k \in HistApiKeys, key \in HistKeys :
          GetFlagByKey(k, key) /\ UNCHANGED histVars /\ UNCHANGED sessVars /\ UNCHANGED evalVars
    \/ \E k \in HistApiKeys, key \in HistKeys :
          DeleteFlag(k, key) /\ RecordWrite /\ UNCHANGED <<ledger, sessions, resolved, workers>> /\ UNCHANGED evalVars
    \/ \E k \in HistApiKeys, p \in EvalRequests(HistKeys) :
          PostEvaluate(k, p) /\ RecordEval /\ UNCHANGED <<ledger, sessions, resolved, workers>> /\ UNCHANGED evalVars

SpecHist == Init /\ [][NextHist]_vars

-----------------------------------------------------------------------------
(* The flag endpoints with the last write to every (tenant, key) recorded *)

\* bodies of POST /admin/flags/ with and without the optional fields
LedgerConfigs ==
    FlagConfigs(KeyPool)
    \cup { JObj([key |-> k, enabled |-> JBool(TRUE),
                 parameters |-> JObj([discount |-> JNum(10)])]) : k \in HistKeys }

\* an accepted upsert is the last write of its (tenant, key); times tells
\* whether the same payload was also the write before (1, 2)
RecordUpsert ==
    ledger' =
        IF response'.status = 200
        THEN LET tk == <<g_client_id', request'.payload[2].key>>
             IN  [ledger EXCEPT ![tk] =
                     [state |-> "present", payload |-> request'.payload,
                      times |-> IF ledger[tk].state = "present"
                                   /\ ledger[tk].payload = request'.payload
                                THEN 2 ELSE 1]]
        ELSE ledger

\* an accepted delete is the last write of its (tenant, key)
RecordDelete ==
    ledger' =
        IF response'.status = 204
        THEN [ledger EXCEPT ![<<g_client_id', request'.key>>] =
                 [state |-> "deleted", payload |-> NoPayload,
                  times |-> IF ledger[<<g_client_id', request'.key>>].state = "present"
                            THEN 1 ELSE 2]]
        ELSE ledger

NextLedger ==
    \/ \E k \in HistApiKeys, p \in LedgerConfigs :
          PostUpsertFlag(k, p) /\ RecordUpsert /\ UNCHANGED <<lastEval, sessions, resolved, workers>>
                               /\ UNCHANGED evalVars
    \/ \E k \in HistApiKeys, key \in KeyPool :
          DeleteFlag(k, key) /\ RecordDelete /\ UNCHANGED <<lastEval, sessions, resolved, workers>>
                             /\ UNCHANGED evalVars
    \/ \E k \in HistApiKeys, key \in HistKeys :
          GetFlagByKey(k, key) /\ UNCHANGED histVars /\ UNCHANGED sessVars /\ UNCHANGED evalVars
    \/ \E k \in HistApiKeys, key \in HistKeys :
          PostEvaluate(k, JObj([flag_key |-> key, user_attributes |-> EmptyDict]))
              /\ UNCHANGED histVars /\ UNCHANGED sessVars /\ UNCHANGED evalVars

SpecLedger == Init /\ [][NextLedger]_vars

-----------------------------------------------------------------------------
(* The access gate: every kind of credential on every guarded endpoint, and
   the two resolvers called on their own *)

KeyEmpty == ApiKey("", "")
KeyUnknown == ApiKey(API_KEY_PREFIX, "tokX")

GateApiKeys == { KeyA, KeyB, KeyC, KeyWrongPrefix, KeyEmpty, KeyUnknown }

\* request bodies that also name a tenant
GateConfigs ==
    { JObj([key |-> JStr("promo"), enabled |-> JBool(TRUE)]),
      JObj([key |-> JStr("promo"), enabled |-> JBool(FALSE), client_id |-> JStr("B")]) }

GateEvalRequests ==
    { JObj([flag_key |-> JStr("promo"), user_attributes |-> EmptyDict]),
      JObj([flag_key |-> JStr("promo"), user_attributes |-> EmptyDict,
            client_id |-> JStr("B")]) }

NextGate ==
    \/ \E k \in GateApiKeys : ResolveApiKey(k) /\ UNCHANGED <<workers, lastEval, ledger>>
                                                /\ UNCHANGED evalVars
    \/ \E t \in TokenPool : ResolveSessionToken(t) /\ UNCHANGED <<workers, lastEval, ledger>>
                                                   /\ UNCHANGED evalVars
    \/ \E t \in TokenPool : RequireSession(t) /\ UNCHANGED <<workers, lastEval, ledger>>
                                              /\ UNCHANGED evalVars
    \/ \E k \in GateApiKeys, p \in GateConfigs :
          PostUpsertFlag(k, p) /\ UNCHANGED histVars /\ UNCHANGED sessVars /\ UNCHANGED evalVars
    \/ \E k \in GateApiKeys :
          ListFlags(k, <<50, 0>>) /\ UNCHANGED histVars /\ UNCHANGED sessVars /\ UNCHANGED evalVars
    \/ \E k \in GateApiKeys, key \in HistKeys :
          GetFlagByKey(k, key) /\ UNCHANGED histVars /\ UNCHANGED sessVars /\ UNCHANGED evalVars
    \/ \E k \in GateApiKeys, key \in HistKeys :
          DeleteFlag(k, key) /\ UNCHANGED histVars /\ UNCHANGED sessVars /\ UNCHANGED evalVars
    \/ \E k \in GateApiKeys, p \in GateEvalRequests :
          PostEvaluate(k, p) /\ UNCHANGED histVars /\ UNCHANGED sessVars /\ UNCHANGED evalVars

SpecGate == Init /\ [][NextGate]_vars

-----------------------------------------------------------------------------
(* POST /admin/flags/ handled by two workers at once.  upsert_flag opens its
   own connection: cur.execute runs the statement in a transaction that the
   connection's context manager commits when the function returns. *)

\* Mutant: no unique index on (client_id, key), so the statement never waits
RowLocked_NoUniqueIndex(w, client_id, key) == FALSE

\* UNIQUE (client_id, key): an INSERT .. ON CONFLICT on a (client_id, key)
\* that another transaction has written and not yet committed waits for it
RowLocked(w, client_id, key) ==
    \E o \in Workers \ {w} :
        /\ workers[o].pc = "executed"
        /\ workers[o].client_id = client_id
        /\ workers[o].payload[2].key = key

\* require_api_key and validate_flag_config of post_upsert_flag
ConcReceive(w, api_key, payload) ==
    LET gate == resolve_client_by_api_key(api_key)
    IN  /\ workers[w].pc = "idle"
        /\ workers' = [workers EXCEPT ![w] =
               IF gate.client = {} THEN [@ EXCEPT !.pc = "done", !.status = 401]
               ELSE IF ~validate_flag_config(payload)
                    THEN [@ EXCEPT !.pc = "done", !.status = 400,
                                   !.client_id = fetchone(gate.client).id]
                    ELSE [@ EXCEPT !.pc = "ready", !.payload = payload,
                                   !.client_id = fetchone(gate.client).id]]
        /\ UNCHANGED <<clients, flags, now, request, g_client_id, fetched, response, calls,
                       sessions, resolved>>

\* cur.execute(sql, params): the statement runs on the committed table
ConcExecute(w) ==
    LET me == workers[w]
        done == upsert_flag(flags, me.client_id, me.payload, now + 1)
    IN  /\ me.pc = "ready"
        /\ now < MaxClock
        /\ ~RowLocked(w, me.client_id, me.payload[2].key)
        /\ now' = now + 1
        /\ workers' = [workers EXCEPT ![w] =
               [@ EXCEPT !.pc = "executed", !.row = {done.row}, !.hit = flags \ done.table,
                         !.raced = \E o \in Workers \ {w} :
                                       workers[o].pc \in {"ready", "executed"}]]
        /\ UNCHANGED <<clients, flags, request, g_client_id, fetched, response, calls,
                       sessions, resolved>>

\* leaving `with get_connection() as conn`: commit; then the 200 response
ConcCommit(w) ==
    LET me == workers[w]
    IN  /\ me.pc = "executed"
        /\ flags' = (flags \ me.hit) \cup me.row
        /\ workers' = [workers EXCEPT ![w] = [@ EXCEPT !.pc = "done", !.status = 200]]
        /\ UNCHANGED <<clients, now, request, g_client_id, fetched, response, calls,
                       sessions, resolved>>

ConcApiKeys == { KeyA, KeyB, KeyC }

\* a flag (A, promo) upserted before the two requests arrive
StoredRow == Upserted({}, "A", JStr("promo"), JBool(TRUE), JList(<<>>), EmptyDict, 0)

InitConc ==
    /\ InitRest
    /\ flags \in { {}, {StoredRow} }
    /\ flag = FlagDict(JStr("promo"), JBool(FALSE), JList(<<>>), EmptyDict)
    /\ user_attributes = EmptyDict
    /\ pc = "idle"
    /\ result = NoResult
    /\ permResults = {}

NextConc ==
    \/ \E w \in Workers, k \in ConcApiKeys, p \in UpsertPayloads :
          ConcReceive(w, k, p) /\ UNCHANGED histVars /\ UNCHANGED evalVars
    \/ \E w \in Workers : ConcExecute(w) /\ UNCHANGED histVars /\ UNCHANGED evalVars
    \/ \E w \in Workers : ConcCommit(w) /\ UNCHANGED histVars /\ UNCHANGED evalVars

SpecConc == InitConc /\ [][NextConc]_vars

-----------------------------------------------------------------------------
(* services/clients_service.py, repositories/clients_repo.py,
   blueprints/admin/clients_admin.py: signup and profile *)

\* str.strip() and str.lower() on a sequence of characters
Whitespace == { " " }

RECURSIVE lstrip(_)
lstrip(text) ==
    IF text # <<>> /\ Head(text) \in Whitespace THEN lstrip(Tail(text)) ELSE text

RECURSIVE rstrip(_)
rstrip(text) ==
    IF text # <<>> /\ text[Len(text)] \in Whitespace
    THEN rstrip(SubSeq(text, 1, Len(text) - 1))
    ELSE text

strip(text) == rstrip(lstrip(text))

\* the upper-case letters of the model and their lower-case forms
LowerOf(c) == IF c = "A" THEN "a" ELSE IF c = "N" THEN "n" ELSE c

lower(text) == [i \in 1..Len(text) |-> LowerOf(text[i])]

\* `c in text`
Contains(c, text) == \E i \in 1..Len(text) : text[i] = c

\* secrets.token_urlsafe(32): a fresh token, seeded by n
token_urlsafe(n) == <<"tokN1", "tokN2", "tokN3", "tokN4">>[n]

\* Mutant: the key is minted with another prefix
generate_api_key_OtherPrefix(n) == ApiKey("nf_test_", token_urlsafe(n))

\* generate_api_key
generate_api_key(n) == ApiKey(API_KEY_PREFIX, token_urlsafe(n))

\* uuid4() of create_client: a fresh client id, seeded by n
client_uuid4(n) == <<"N1", "N2", "N3", "N4">>[n]

\* clients_repo.get_client_by_email: the rows selected
get_client_by_email(email) == { c \in clients : c.email = email }

\* clients_repo.create_client at time t: INSERT INTO clients ... RETURNING *,
\* the row inserted, or RuntimeError when a constraint of the table (PRIMARY
\* KEY id, UNIQUE email, UNIQUE api_key_hash) makes the INSERT fail
create_client(table, email, password_hash, api_key_hash, subscription_tier, t) ==
    LET row == [id |-> client_uuid4(t), email |-> email, password_hash |-> password_hash,
                api_key_hash |-> api_key_hash, subscription_tier |-> subscription_tier,
                active |-> TRUE, created_at |-> t]
    IN  IF \E c \in table : c.id = row.id \/ c.email = email \/ c.api_key_hash = api_key_hash
        THEN <<"raise">>
        ELSE <<"row", row>>

\* _row_to_client
row_to_client(row) == [f \in ClientFields |-> row[f]]

\* _client_to_dict
client_to_dict(client) ==
    [id |-> str(client.id), email |-> client.email,
     subscription_tier |-> client.subscription_tier, active |-> client.active,
     created_at |-> isoformat(client.created_at)]

\* what register_client did: returned (Client, api_key_plain), or raised
Registered(outcome, row, api_key, made) ==
    [outcome |-> outcome, row |-> row, api_key |-> api_key, calls |-> made]

\* Mutant: the email is looked up as given, without strip().lower()
register_client_NoNormalize(email, password, t) ==
    LET normalized_email == email
        existing == get_client_by_email(normalized_email)
        look == <<Call("clients", "get_client_by_email", "none", normalized_email)>>
        api_key_plain == generate_api_key(t)
        created == create_client(clients, normalized_email, hash_password(password, gensalt(t)),
                                 hash_api_key(api_key_plain), "free", t)
        both == Append(look, Call("clients", "create_client", "none", normalized_email))
    IN  IF ~Contains("@", normalized_email)
        THEN Registered("ValueError", {}, ApiKey("", ""), <<>>)
        ELSE IF password = ""
        THEN Registered("ValueError", {}, ApiKey("", ""), <<>>)
        ELSE IF existing # {}
        THEN Registered("ClientAlreadyExistsError", {}, ApiKey("", ""), look)
        ELSE IF created = <<"raise">>
        THEN Registered("RuntimeError", {}, ApiKey("", ""), both)
        ELSE Registered("ok", {created[2]}, api_key_plain, both)

\* register_client at time t
register_client(email, password, t) ==
    LET normalized_email == lower(strip(email))
        existing == get_client_by_email(normalized_email)
        look == <<Call("clients", "get_client_by_email", "none", normalized_email)>>
        api_key_plain == generate_api_key(t)
        created == create_client(clients, normalized_email, hash_password(password, gensalt(t)),
                                 hash_api_key(api_key_plain), "free", t)
        both == Append(look, Call("clients", "create_client", "none", normalized_email))
    IN  IF ~Contains("@", normalized_email)
        THEN Registered("ValueError", {}, ApiKey("", ""), <<>>)
        ELSE IF password = ""
        THEN Registered("ValueError", {}, ApiKey("", ""), <<>>)
        ELSE IF existing # {}
        THEN Registered("ClientAlreadyExistsError", {}, ApiKey("", ""), look)
        ELSE IF created = <<"raise">>
        THEN Registered("RuntimeError", {}, ApiKey("", ""), both)
        ELSE Registered("ok", {created[2]}, api_key_plain, both)

\* a JSON body with the fields email and password, either of them optional
Credentials(email, password) == JObj([email |-> email, password |-> password])

\* payload.get(k) or default
GetOr(payload, k, default) == IF k \in DOMAIN payload[2] THEN payload[2][k] ELSE default

InvalidEmail ==
    Response(400, <<[error |-> "Invalid email address provided.", code |-> "clients.invalid_email"]>>)
InvalidPassword ==
    Response(400, <<[error |-> "Password cannot be empty.", code |-> "clients.invalide_password"]>>)
InvalidInput == Response(400, <<[error |-> "ValueError", code |-> "clients.invalid_input"]>>)
EmailConflict ==
    Response(409, <<[error |-> "Email already registered", code |-> "clients.email_conflict"]>>)

\* POST /clients/signup : post_signup
PostSignup(payload) ==
    LET email == strip(GetOr(payload, "email", <<>>))
        password == GetOr(payload, "password", "")
        reg == register_client(email, password, now + 1)
        answer(resp, made) ==
            /\ response' = resp
            /\ calls' = made
            /\ UNCHANGED <<clients, now>>
    IN  /\ request' = Request("signup", ApiKey("", ""), NoKey, payload, 0, 0)
        /\ g_client_id' = "none"
        /\ fetched' = {}
        /\ UNCHANGED <<flags, sessions>>
        /\ IF email = <<>> \/ ~Contains("@", email) THEN answer(InvalidEmail, <<>>)
           ELSE IF password = "" THEN answer(InvalidPassword, <<>>)
           ELSE IF reg.outcome = "ClientAlreadyExistsError" THEN answer(EmailConflict, reg.calls)
           ELSE IF reg.outcome = "ValueError" THEN answer(InvalidInput, reg.calls)
           ELSE IF reg.outcome = "RuntimeError" THEN answer(InternalServerError, reg.calls)
           ELSE /\ now < MaxClock
                /\ now' = now + 1
                /\ clients' = clients \cup reg.row
                /\ calls' = reg.calls
                /\ response' = Response(201, <<[client |-> client_to_dict(row_to_client(fetchone(reg.row))),
                                                api_key |-> reg.api_key]>>)

\* Mutant: the profile is the row as stored
GetCurrentClientProfile_WholeRow(api_key) ==
    LET req == Request("me", api_key, NoKey, NoPayload, 0, 0)
        gate == resolve_client_by_api_key(api_key)
        client == gate.client
    IN  IF client = {} THEN Reject(req, gate)
        ELSE /\ request' = req
             /\ g_client_id' = fetchone(client).id
             /\ fetched' = {}
             /\ calls' = gate.calls
             /\ response' = Response(200, <<[client |-> fetchone(client)]>>)
             /\ UNCHANGED <<clients, flags, now>>

\* GET /clients/me : require_api_key, get_current_client_profile
GetCurrentClientProfile(api_key) ==
    LET req == Request("me", api_key, NoKey, NoPayload, 0, 0)
        gate == resolve_client_by_api_key(api_key)
        client == gate.client
    IN  IF client = {} THEN Reject(req, gate)
        ELSE /\ request' = req
             /\ g_client_id' = fetchone(client).id
             /\ fetched' = {}
             /\ calls' = gate.calls
             /\ response' = Response(200, <<[client |-> client_to_dict(row_to_client(fetchone(client)))]>>)
             /\ UNCHANGED <<clients, flags, now>>

-----------------------------------------------------------------------------
(* services/clients_service.py: authenticate_client; services/sessions_service.py;
   blueprints/auth/auth.py: login and logout *)

\* Mutant: the password is not verified
authenticate_client_AnyPassword(email, password) ==
    LET normalized_email == lower(strip(email))
        row == get_client_by_email(normalized_email)
        look == <<Call("clients", "get_client_by_email", "none", normalized_email)>>
    IN  [client |-> row, calls |-> look]

\* authenticate_client: client is the set holding the row the Client returned
\* is built from (empty for None), calls the repository calls made
authenticate_client(email, password) ==
    LET normalized_email == lower(strip(email))
        row == get_client_by_email(normalized_email)
        look == <<Call("clients", "get_client_by_email", "none", normalized_email)>>
    IN  IF row = {} THEN [client |-> {}, calls |-> look]
        ELSE IF ~verify_password(password, fetchone(row).password_hash)
        THEN [client |-> {}, calls |-> look]
        ELSE [client |-> row, calls |-> look]

\* the session token and the session id minted at time t
mint_token(t) == <<"nsess_n1", "nsess_n2", "nsess_n3", "nsess_n4">>[t]
session_uuid4(t) == <<"n1", "n2", "n3", "n4">>[t]

\* create_session_for_client at time t: (Session, raw_token); the session is
\* stored under the digest of the token, live and not revoked
create_session_for_client(client_id, t) ==
    [session |-> SessionRow(session_uuid4(t), client_id, mint_token(t), t + MaxClock + 2, FALSE),
     raw_token |-> mint_token(t)]

\* delete_session_for_token: the table without the session of the token
delete_session_for_token(table, raw_token) ==
    { s \in table : s.token_hash # hash_token(raw_token) }

MissingCredentials ==
    Response(400, <<[error |-> "Email and password are required.",
                     code |-> "auth.missing_credentials"]>>)
InvalidCredentials ==
    Response(401, <<[error |-> "Invalid email or password.", code |-> "auth.invalid_credentials"]>>)
MissingSessionToken ==
    Response(400, <<[error |-> "Missing session token.", code |-> "auth.missing_session_token"]>>)
NoContent == Response(204, <<>>)

\* POST /auth/login : login
Login(payload) ==
    LET email == strip(GetOr(payload, "email", <<>>))
        password == GetOr(payload, "password", "")
        auth == authenticate_client(email, password)
        client == row_to_client(fetchone(auth.client))
        made == create_session_for_client(client.id, now + 1)
    IN  /\ request' = Request("login", ApiKey("", ""), NoKey, payload, 0, 0)
        /\ g_client_id' = "none"
        /\ fetched' = {}
        /\ UNCHANGED <<clients, flags>>
        /\ IF email = <<>> \/ password = ""
           THEN /\ response' = MissingCredentials
                /\ calls' = <<>>
                /\ UNCHANGED <<sessions, now>>
           ELSE IF auth.client = {}
           THEN /\ response' = InvalidCredentials
                /\ calls' = auth.calls
                /\ UNCHANGED <<sessions, now>>
           ELSE /\ now < MaxClock
                /\ now' = now + 1
                /\ sessions' = sessions \cup {made.session}
                /\ calls' = Append(auth.calls,
                                   Call("sessions", "create_session_for_client", "none", <<client.id>>))
                /\ response' = Response(200, <<[session_token |-> made.raw_token,
                                                client |-> client_to_dict(client)]>>)

\* a header value is the sequence of its parts: an authentication scheme
\* with its space (7 characters), runs of whitespace, a token
Bearer == { "Bearer ", "bearer ", "BEARER " }

\* auth_header.lower().startswith("bearer ")
startswith_bearer(auth_header) == auth_header # <<>> /\ Head(auth_header) \in Bearer

\* the str a stripped header value is: the token, or ""
header_str(parts) == IF parts = <<>> THEN "" ELSE Head(parts)

\* _extract_session_token: the token, or "" for None
extract_session_token(headers) ==
    IF headers.X_Session_Token # <<>> THEN header_str(strip(headers.X_Session_Token))
    ELSE IF startswith_bearer(headers.Authorization) THEN header_str(strip(Tail(headers.Authorization)))
    ELSE ""

Headers(x_session_token, authorization) ==
    [X_Session_Token |-> x_session_token, Authorization |-> authorization]

LogoutRequest(headers) ==
    [endpoint |-> "logout", api_key |-> ApiKey("", ""), session_token |-> "",
     key |-> NoKey, payload |-> NoPayload, limit |-> 0, offset |-> 0, headers |-> headers]

\* Mutant: a token that matches no session is answered 404
Logout_NotFoundWhenAbsent(headers) ==
    LET token == extract_session_token(headers)
    IN  /\ request' = LogoutRequest(headers)
        /\ g_client_id' = "none"
        /\ fetched' = {}
        /\ UNCHANGED <<clients, flags, now>>
        /\ IF token = ""
           THEN /\ response' = MissingSessionToken
                /\ calls' = <<>>
                /\ UNCHANGED sessions
           ELSE /\ sessions' = delete_session_for_token(sessions, token)
                /\ calls' = <<Call("sessions", "delete_session_for_token", "none", hash_token(token))>>
                /\ response' = IF sessions' = sessions THEN EvalNotFound ELSE NoContent

\* POST /auth/logout : logout
Logout(headers) ==
    LET token == extract_session_token(headers)
    IN  /\ request' = LogoutRequest(headers)
        /\ g_client_id' = "none"
        /\ fetched' = {}
        /\ UNCHANGED <<clients, flags, now>>
        /\ IF token = ""
           THEN /\ response' = MissingSessionToken
                /\ calls' = <<>>
                /\ UNCHANGED sessions
           ELSE /\ sessions' = delete_session_for_token(sessions, token)
                /\ calls' = <<Call("sessions", "delete_session_for_token", "none", hash_token(token))>>
                /\ response' = NoContent

-----------------------------------------------------------------------------
(* Signup, profile, login and logout, with both ways of resolving a credential *)

\* bodies of POST /clients/signup
SignupBodies ==
    { Credentials(e, p) :
        e \in { <<>>, <<"n", "x">>, <<"n", "@", "x">>, <<" ", "N", "@", "x">>,
                <<"A", "@", "x", " ">> },
        p \in { "", "pwA" } }
    \cup { NoPayload }

\* bodies of POST /auth/login
LoginBodies ==
    { Credentials(e, p) :
        e \in { <<>>, <<"n", "@", "x">>, <<"A", "@", "x", " ">>, <<"c", "@", "x">> },
        p \in { "", "pwA", "pwC" } }
    \cup { NoPayload }

AccountApiKeys == { KeyC, KeyWrongPrefix, generate_api_key(1) }

LogoutHeaders ==
    { Headers(<<>>, <<>>),
      Headers(<<" ">>, <<"Bearer ", "nsess_a">>),
      Headers(<<"nsess_x">>, <<"Bearer ", "nsess_a">>),
      Headers(<<>>, <<"Basic ", "nsess_a">>),
      Headers(<<>>, <<"bearer ", " ", "nsess_a">>),
      Headers(<<"nsess_b_revoked">>, <<>>),
      Headers(<<mint_token(1)>>, <<>>) }

NextAccounts ==
    \/ \E p \in SignupBodies :
          PostSignup(p) /\ UNCHANGED <<resolved, workers>> /\ UNCHANGED histVars /\ UNCHANGED evalVars
    \/ \E k \in AccountApiKeys :
          /\ GetCurrentClientProfile(k)
          /\ UNCHANGED sessVars /\ UNCHANGED histVars /\ UNCHANGED evalVars
    \/ \E k \in AccountApiKeys :
          ResolveApiKey(k) /\ UNCHANGED <<workers>> /\ UNCHANGED histVars /\ UNCHANGED evalVars
    \/ \E p \in LoginBodies :
          Login(p) /\ UNCHANGED <<resolved, workers>> /\ UNCHANGED histVars /\ UNCHANGED evalVars
    \/ \E h \in LogoutHeaders :
          Logout(h) /\ UNCHANGED <<resolved, workers>> /\ UNCHANGED histVars /\ UNCHANGED evalVars

SpecAccounts == Init /\ [][NextAccounts]_vars

-----------------------------------------------------------------------------
(* Evaluations and deletes arriving while the two workers handle upserts.
   get_flag_by_key and delete_flag are one statement each, run in a
   connection of their own: the SELECT reads the committed table, the DELETE
   waits for a transaction that has updated the row and not yet committed. *)

\* the row of (client_id, key) is locked by an uncommitted DO UPDATE
UpdateInProgress(client_id, key) ==
    \E o \in Workers :
        /\ workers[o].pc = "executed"
        /\ workers[o].hit # {}
        /\ workers[o].client_id = client_id
        /\ workers[o].payload[2].key = key

\* DELETE /admin/flags/<key> once the statement has the row lock
ConcDelete(api_key, key) ==
    /\ \A c \in resolve_client_by_api_key(api_key).client : ~UpdateInProgress(c.id, key)
    /\ DeleteFlag(api_key, key)

NextRead ==
    \/ \E w \in Workers, k \in HistApiKeys, p \in FlagConfigs(HistKeys) :
          ConcReceive(w, k, p) /\ UNCHANGED histVars /\ UNCHANGED evalVars
    \/ \E w \in Workers : ConcExecute(w) /\ UNCHANGED histVars /\ UNCHANGED evalVars
    \/ \E w \in Workers : ConcCommit(w) /\ UNCHANGED histVars /\ UNCHANGED evalVars
    \/ \E k \in HistApiKeys, key \in HistKeys :
          ConcDelete(k, key) /\ UNCHANGED histVars /\ UNCHANGED sessVars /\ UNCHANGED evalVars
    \/ \E k \in HistApiKeys, p \in EvalRequests(HistKeys) :
          PostEvaluate(k, p) /\ UNCHANGED histVars /\ UNCHANGED sessVars /\ UNCHANGED evalVars

SpecRead == InitConc /\ [][NextRead]_vars

-----------------------------------------------------------------------------
(* POST /clients/signup handled by two workers at once.  get_client_by_email
   and create_client each open a connection of their own: the SELECT reads
   the committed table, the INSERT runs in a transaction that the
   connection's context manager commits when create_client returns. *)

\* UNIQUE (email): an INSERT of an email that another transaction has
\* inserted and not yet committed waits for that transaction to end
EmailLocked(w, email) ==
    \E o \in Workers \ {w} :
        /\ workers[o].pc = "executed"
        /\ \E r \in workers[o].row : r.email = email

\* post_signup up to the get_client_by_email of register_client
SignupReceive(w, payload) ==
    LET email == strip(GetOr(payload, "email", <<>>))
        password == GetOr(payload, "password", "")
        normalized_email == lower(strip(email))
        existing == get_client_by_email(normalized_email)
    IN  /\ workers[w].pc = "idle"
        /\ workers' = [workers EXCEPT ![w] =
               IF email = <<>> \/ ~Contains("@", email) \/ password = ""
               THEN [@ EXCEPT !.pc = "done", !.status = 400, !.payload = payload]
               ELSE IF existing # {}
                    THEN [@ EXCEPT !.pc = "done", !.status = 409, !.payload = payload,
                                   !.hit = existing]
                    ELSE [@ EXCEPT !.pc = "ready", !.payload = payload]]
        /\ UNCHANGED <<clients, flags, now, request, g_client_id, fetched, response, calls,
                       sessions, resolved>>

\* cur.execute(sql, params) of create_client: the INSERT is checked against
\* the committed table; DatabaseError becomes RuntimeError, which post_signup
\* does not catch
SignupExecute(w) ==
    LET me == workers[w]
        normalized_email == lower(strip(strip(GetOr(me.payload, "email", <<>>))))
        password == GetOr(me.payload, "password", "")
        t == now + 1
        created == create_client(clients, normalized_email, hash_password(password, gensalt(t)),
                                 hash_api_key(generate_api_key(t)), "free", t)
    IN  /\ me.pc = "ready"
        /\ now < MaxClock
        /\ ~EmailLocked(w, normalized_email)
        /\ now' = t
        /\ workers' = [workers EXCEPT ![w] =
               IF created = <<"raise">>
               THEN [@ EXCEPT !.pc = "done", !.status = 500, !.raced = TRUE]
               ELSE [@ EXCEPT !.pc = "executed", !.row = {created[2]},
                              !.raced = \E o \in Workers \ {w} :
                                            workers[o].pc \in {"ready", "executed"}]]
        /\ UNCHANGED <<clients, flags, request, g_client_id, fetched, response, calls,
                       sessions, resolved>>

\* leaving `with get_connection() as conn`: commit; then the 201 response
SignupCommit(w) ==
    LET me == workers[w]
    IN  /\ me.pc = "executed"
        /\ clients' = clients \cup me.row
        /\ workers' = [workers EXCEPT ![w] = [@ EXCEPT !.pc = "done", !.status = 201]]
        /\ UNCHANGED <<flags, now, request, g_client_id, fetched, response, calls,
                       sessions, resolved>>

NextSignups ==
    \/ \E w \in Workers, p \in SignupBodies :
          SignupReceive(w, p) /\ UNCHANGED histVars /\ UNCHANGED evalVars
    \/ \E w \in Workers : SignupExecute(w) /\ UNCHANGED histVars /\ UNCHANGED evalVars
    \/ \E w \in Workers : SignupCommit(w) /\ UNCHANGED histVars /\ UNCHANGED evalVars

SpecSignups == Init /\ [][NextSignups]_vars

-----------------------------------------------------------------------------
(* The upsert and evaluate endpoints given bodies that fail validation *)

\* bodies of POST /admin/flags/ that flag_config.schema.json rejects
InvalidConfigs ==
    { NoPayload,
      JObj([key |-> JStr("promo")]),
      JObj([enabled |-> JBool(TRUE)]),
      JObj([key |-> JNum(1), enabled |-> JBool(TRUE)]),
      JObj([key |-> JStr("promo"), enabled |-> JStr("yes")]),
      JObj([key |-> JStr("promo"), enabled |-> JBool(TRUE), conditions |-> EmptyDict]),
      JObj([key |-> JStr("promo"), enabled |-> JBool(TRUE), parameters |-> JList(<<>>)]) }

\* bodies of POST /evaluate/ that EvaluateRequest.schema.json rejects
InvalidEvalRequests ==
    { NoPayload,
      JObj([flag_key |-> JStr("promo")]),
      JObj([user_attributes |-> EmptyDict]),
      JObj([flag_key |-> JNum(1), user_attributes |-> EmptyDict]),
      JObj([flag_key |-> JStr("promo"), user_attributes |-> JList(<<>>)]) }

NextOrder ==
    \/ \E k \in GateApiKeys, p \in FlagConfigs(HistKeys) \cup InvalidConfigs :
          PostUpsertFlag(k, p) /\ UNCHANGED histVars /\ UNCHANGED sessVars /\ UNCHANGED evalVars
    \/ \E k \in GateApiKeys, p \in EvalRequests(HistKeys) \cup InvalidEvalRequests :
          PostEvaluate(k, p) /\ UNCHANGED histVars /\ UNCHANGED sessVars /\ UNCHANGED evalVars

SpecOrder == Init /\ [][NextOrder]_vars

-----------------------------------------------------------------------------
(* The engine called on one input *)

InitEval ==
    /\ flag \in FlagDefs
    /\ user_attributes \in UserAttrs
    /\ pc = "ready"
    /\ result = NoResult
    /\ permResults = {}
    /\ InitStore

InitAny ==
    /\ flag \in AnyFlags
    /\ user_attributes \in UserAttrs
    /\ pc = "ready"
    /\ result = NoResult
    /\ permResults = {}
    /\ InitStore

\* result = evaluate_flag(flag, user_attributes), and the same call on every
\* reordering of flag["conditions"]
Evaluate ==
    /\ pc = "ready"
    /\ pc' = "done"
    /\ result' = evaluate_flag(flag, user_attributes)
    /\ permResults' = { Strip(evaluate_flag(Reordered(flag, p), user_attributes)) :
                          p \in Orderings(Len(Conditions(flag))) }
    /\ UNCHANGED <<flag, user_attributes>>
    /\ UNCHANGED storeVars

NextEval == Evaluate

SpecEval == InitEval /\ [][NextEval]_vars

SpecAny == InitAny /\ [][NextEval]_vars

-----------------------------------------------------------------------------
(* Properties of the evaluation engine *)

Done == pc = "done"
Enabled(f) == Truthy(f[2].enabled)

CondAttr(c) == DictGet(c, "attribute", JNull)
CondOp(c) == DictGet(c, "operator", JNull)
CondRef(c) == DictGet(c, "value", JNull)

\* the attribute a condition names is a key of the user attributes
Present(c, ua) == IsStr(CondAttr(c)) /\ CondAttr(c)[2] \in DOMAIN ua[2]
Looked(c, ua) == ua[2][CondAttr(c)[2]]

\* the rule set as the data model states it
EqualsPasses(c, ua) == Present(c, ua) /\ PyEq(Looked(c, ua), CondRef(c))
InPasses(c, ua) ==
    /\ Present(c, ua)
    /\ IsList(CondRef(c))
    /\ Len(CondRef(c)[2]) > 0
    /\ \E i \in 1..Len(CondRef(c)[2]) : PyEq(Looked(c, ua), CondRef(c)[2][i])
Passes(c, ua) ==
    \/ CondOp(c) = JStr("equals") /\ EqualsPasses(c, ua)
    \/ CondOp(c) = JStr("in") /\ InPasses(c, ua)

\* what the call showed about condition i: it was examined, and it passed iff
\* the loop went on to the next condition or returned enabled:true
Examined(i) == i <= result.examined
Passed(i) == i < result.examined \/ result.value.enabled

\* C1: a flag with enabled=false evaluates to enabled=false, parameters={},
\* whatever its conditions (malformed ones included) and the user attributes,
\* and no condition is examined.
C1_KillSwitchDominates ==
    (Done /\ flag[2].enabled = JBool(FALSE)) =>
        /\ result.outcome = "return"
        /\ result.value.enabled = FALSE
        /\ result.value.parameters = EmptyDict
        /\ result.examined = 0

C1_Witness ==
    /\ Done
    /\ flag[2].enabled = JBool(FALSE)
    /\ Len(Conditions(flag)) >= 2
    /\ Conditions(flag)[1] \in MalformedPool
    /\ flag[2].parameters # EmptyDict
    /\ DOMAIN user_attributes[2] = AttrNames
    /\ result.value.enabled = FALSE

\* C2: evaluate_flag returns enabled=true iff flag.enabled is true and every
\* condition matches the attributes (an empty list trivially passes); then the
\* returned parameters are the flag's parameters and flag_key is the flag's key.
C2_EnabledIffAllMatch ==
    Done =>
        /\ result.outcome = "return"
        /\ result.value.enabled <=>
              /\ flag[2].enabled = JBool(TRUE)
              /\ \A i \in 1..Len(Conditions(flag)) : Passes(Conditions(flag)[i], user_attributes)
        /\ result.value.enabled =>
              /\ result.value.parameters = flag[2].parameters
              /\ result.value.flag_key = flag[2].key

C2_Witness ==
    /\ Done
    /\ result.value.enabled
    /\ Len(Conditions(flag)) >= 2
    /\ Conditions(flag)[1] # Conditions(flag)[2]
    /\ result.value.parameters = JObj([discount |-> JNum(40)])

\* C3: in every result, enabled=false implies parameters={}.
C3_NoParametersWhenOff ==
    (Done /\ result.outcome = "return" /\ ~result.value.enabled) =>
        result.value.parameters = EmptyDict

C3_Witness ==
    /\ Done
    /\ Enabled(flag)
    /\ flag[2].parameters # EmptyDict
    /\ result.outcome = "return"
    /\ ~result.value.enabled
    /\ result.examined = 2
    /\ result.value.parameters = EmptyDict

\* C4: an `equals` condition on attribute a with reference v passes iff a is a
\* key of the user attributes and userAttributes[a] equals v by value (Python
\* ==); when a is absent the condition fails and the flag evaluates to off,
\* without an error.
C4_EqualsCondition ==
    (Done /\ Enabled(flag)) =>
        /\ result.outcome = "return"
        /\ \A i \in 1..Len(Conditions(flag)) :
              LET c == Conditions(flag)[i]
              IN  CondOp(c) = JStr("equals") =>
                    /\ Examined(i) => (Passed(i) <=> EqualsPasses(c, user_attributes))
                    /\ ~Present(c, user_attributes) =>
                          (~result.value.enabled /\ result.value.parameters = EmptyDict)

C4_Witness ==
    /\ Done
    /\ Enabled(flag)
    /\ Len(Conditions(flag)) = 2
    /\ CondOp(Conditions(flag)[1]) = JStr("equals")
    /\ CondOp(Conditions(flag)[2]) = JStr("equals")
    /\ Passed(1)
    /\ result.examined = 2
    /\ ~Present(Conditions(flag)[2], user_attributes)
    /\ ~result.value.enabled

\* C5: an `in` condition on attribute a with reference L passes iff a is
\* present, L is a non-empty list and userAttributes[a] is a member of L; an
\* empty or non-list L fails for every user attribute mapping, without raising.
C5_InCondition ==
    (Done /\ Enabled(flag)) =>
        /\ result.outcome = "return"
        /\ \A i \in 1..Len(Conditions(flag)) :
              LET c == Conditions(flag)[i]
              IN  CondOp(c) = JStr("in") =>
                    /\ Examined(i) => (Passed(i) <=> InPasses(c, user_attributes))
                    /\ (~IsList(CondRef(c)) \/ CondRef(c) = JList(<<>>)) =>
                          (~result.value.enabled /\ (Examined(i) => ~Passed(i)))

C5_Witness ==
    /\ Done
    /\ Enabled(flag)
    /\ Len(Conditions(flag)) = 2
    /\ CondOp(Conditions(flag)[1]) = JStr("in")
    /\ Passed(1)
    /\ CondOp(Conditions(flag)[2]) = JStr("in")
    /\ ~IsList(CondRef(Conditions(flag)[2]))
    /\ Present(Conditions(flag)[2], user_attributes)
    /\ Looked(Conditions(flag)[2], user_attributes) = CondRef(Conditions(flag)[2])
    /\ result.examined = 2
    /\ ~result.value.enabled

KnownOperators == { JStr("equals"), JStr("in") }

UnknownOperator(c) == IsStr(CondOp(c)) /\ CondOp(c) \notin KnownOperators

\* C6: a condition whose operator is a string other than `equals` or `in`
\* never matches: an enabled flag containing one evaluates to enabled=false
\* with empty parameters for every user attribute mapping, and evaluate_flag
\* returns instead of raising.
C6_UnknownOperatorFailsClosed ==
    (Done /\ Enabled(flag)) =>
        \A i \in 1..Len(Conditions(flag)) :
            UnknownOperator(Conditions(flag)[i]) =>
                /\ result.outcome = "return"
                /\ ~result.value.enabled
                /\ result.value.parameters = EmptyDict
                /\ Examined(i) => ~Passed(i)

C6_Witness ==
    /\ Done
    /\ Enabled(flag)
    /\ Len(Conditions(flag)) = 2
    /\ UnknownOperator(Conditions(flag)[2])
    /\ Present(Conditions(flag)[2], user_attributes)
    /\ Looked(Conditions(flag)[2], user_attributes) = CondRef(Conditions(flag)[2])
    /\ result.examined = 2
    /\ flag[2].parameters # EmptyDict
    /\ ~result.value.enabled

\* C7: the result does not depend on the order of the conditions: every
\* reordering of the condition list gives the same enabled value and the same
\* parameters, although evaluation stops at the first failing condition.
C7_OrderIrrelevant ==
    Done => permResults = { Strip(result) }

C7_Witness ==
    /\ Done
    /\ Enabled(flag)
    /\ Len(Conditions(flag)) = 2
    /\ result.examined = 1
    /\ ~result.value.enabled
    /\ Passes(Conditions(flag)[2], user_attributes)
    /\ flag[2].parameters # EmptyDict

-----------------------------------------------------------------------------
(* Properties of the flag endpoints *)

Authenticated == g_client_id # "none"

RowsOf(client_id, key) == { r \in flags : r.client_id = client_id /\ r.key = key }

\* C8: evaluating the same stored flag with the same user attributes any
\* number of times, with no upsert or delete of that flag in between, gives an
\* identical response each time, and an evaluation changes neither the flag
\* record nor any other stored state.
C8_EvaluationIsPure ==
    [][ /\ request'.endpoint = "evaluate" =>
              (flags' = flags /\ clients' = clients /\ now' = now)
        /\ ( /\ lastEval.client_id # "none"
             /\ lastEval'.client_id = lastEval.client_id
             /\ lastEval'.key = lastEval.key
             /\ lastEval'.ua = lastEval.ua ) =>
              lastEval'.response = lastEval.response ]_vars

C8_Witness ==
    /\ lastEval.times = 2
    /\ lastEval.response.status = 200
    /\ lastEval.response.body[1].enabled
    /\ request.endpoint = "upsert"
    /\ response.status = 200
    /\ g_client_id # lastEval.client_id
    /\ request.payload[2].key = lastEval.key

\* C9: a lookup, listing or evaluation scoped to tenant B is given only flag
\* records whose client_id is B, also when another tenant uses the same key,
\* and B's lookup of a key that B has not defined is answered not-found.
C9_TenantIsolation ==
    /\ \A r \in fetched : r.client_id = g_client_id /\ r \in flags
    /\ (request.endpoint \in {"get", "list"} /\ response.status = 200) =>
          \A i \in 1..Len(response.body) :
              \E r \in flags : r.client_id = g_client_id /\ response.body[i] = serialize_flag(r)
    /\ (request.endpoint = "get" /\ Authenticated /\ RowsOf(g_client_id, request.key) = {}) =>
          response = FlagNotFound
    /\ ( /\ request.endpoint = "evaluate" /\ Authenticated
         /\ validate_eval_payload(request.payload) ) =>
          IF RowsOf(g_client_id, request.payload[2].flag_key) = {}
          THEN response = EvalNotFound
          ELSE \E r \in RowsOf(g_client_id, request.payload[2].flag_key) :
                  response = Response(200,
                      <<evaluate_flag(JObj(r), request.payload[2].user_attributes).value>>)

C9_Witness ==
    /\ request.endpoint = "evaluate"
    /\ g_client_id = "B"
    /\ response.status = 200
    /\ ~response.body[1].enabled
    /\ \E ra \in flags :
          /\ ra.client_id = "A"
          /\ ra.key = request.payload[2].flag_key
          /\ evaluate_flag(JObj(ra), request.payload[2].user_attributes).value.enabled

\* the key a write request names
WrittenKey(req) == IF req.endpoint = "upsert" THEN DictGet(req.payload, "key", NoKey) ELSE req.key

\* C10: an upsert or a delete of key k by tenant A leaves every flag record of
\* every other tenant unchanged, also a record with the same key k; only the
\* record (A, k) can be created, replaced or removed by that request.
C10_WritesTouchOwnRecordOnly ==
    [][ request'.endpoint \in {"upsert", "delete"} =>
          \A r \in flags \cup flags' :
              (r.client_id # g_client_id' \/ r.key # WrittenKey(request')) =>
                  (r \in flags /\ r \in flags') ]_vars

C10_Witness ==
    /\ request.endpoint = "delete"
    /\ g_client_id = "A"
    /\ response.status = 204
    /\ now = 2
    /\ flags # {}
    /\ \A r \in flags : r.client_id = "B" /\ r.key = request.key

-----------------------------------------------------------------------------
(* Properties of flag storage *)

\* the fields of a stored record a payload asks for
Asked(payload) ==
    [enabled |-> payload[2].enabled,
     conditions |-> DictGet(payload, "conditions", JList(<<>>)),
     parameters |-> DictGet(payload, "parameters", EmptyDict)]

Contents(r) == [enabled |-> r.enabled, conditions |-> r.conditions, parameters |-> r.parameters]

\* C11: after any sequence of upserts there is exactly one flag record per
\* (tenant, key) upserted and not deleted; its enabled, conditions and
\* parameters are those of the latest upsert payload for that (tenant, key),
\* missing conditions taken as the empty list and missing parameters as the
\* empty mapping (a full replace, no merge), so upserting the same payload
\* twice leaves the contents of upserting it once.
C11_UpsertReplaces ==
    /\ \A r \in flags : ledger[<<r.client_id, r.key>>].state = "present"
    /\ \A tk \in DOMAIN ledger :
          ledger[tk].state = "present" =>
              /\ Cardinality(RowsOf(tk[1], tk[2])) = 1
              /\ \A r \in RowsOf(tk[1], tk[2]) : Contents(r) = Asked(ledger[tk].payload)

C11_Witness ==
    \E tk \in DOMAIN ledger, r \in flags :
        /\ r.client_id = tk[1] /\ r.key = tk[2]
        /\ ledger[tk].times = 2
        /\ "conditions" \notin DOMAIN ledger[tk].payload[2]
        /\ r.updated_at > r.created_at
        /\ r.conditions = JList(<<>>)
        /\ r.parameters # EmptyDict

\* the workers whose accepted upsert targets (client_id, key)
Writers(client_id, key) ==
    { w \in Workers : /\ workers[w].pc \in {"ready", "executed", "done"}
                      /\ workers[w].payload # NoPayload
                      /\ workers[w].client_id = client_id
                      /\ workers[w].payload[2].key = key }

\* C12: for every interleaving of two concurrent upserts to the same (tenant,
\* key), no reachable state holds two records for the pair or a record mixing
\* fields of both payloads, and the store ends with exactly one record for the
\* pair whose enabled, conditions and parameters all come from one of the two
\* payloads.
C12_ConcurrentUpsertsSerialize ==
    /\ \A c \in ClientIds, k \in KeyPool : Cardinality(RowsOf(c, k)) <= 1
    /\ \A r \in flags :
          \/ r = StoredRow
          \/ \E w \in Writers(r.client_id, r.key) : Contents(r) = Asked(workers[w].payload)
    /\ \A c \in ClientIds, k \in KeyPool :
          ( /\ Writers(c, k) = Workers
            /\ \A w \in Workers : workers[w].pc = "done" ) =>
              /\ Cardinality(RowsOf(c, k)) = 1
              /\ \A r \in RowsOf(c, k) :
                    /\ r # StoredRow
                    /\ \E w \in Workers : Contents(r) = Asked(workers[w].payload)

C12_Witness ==
    /\ \A w \in Workers : workers[w].pc = "done" /\ workers[w].status = 200
    /\ workers["w1"].client_id = workers["w2"].client_id
    /\ workers["w1"].payload[2].key = workers["w2"].payload[2].key
    /\ workers["w1"].payload # workers["w2"].payload
    /\ \E w \in Workers : workers[w].raced
    /\ \E r \in flags : r.updated_at = 2 /\ r.created_at = 1
    /\ Cardinality(flags) = 1

\* C13: deleting a flag by (tenant, key) is idempotent: the admin delete
\* answers 204 whether or not the flag exists, a delete of an absent flag
\* leaves the store unchanged, and after a delete of (tenant, key) a lookup or
\* an evaluation of that key for that tenant is answered not-found until the
\* key is upserted again.
C13_DeleteIdempotent ==
    [][ /\ (request'.endpoint = "delete" /\ g_client_id' # "none") =>
              /\ response'.status = 204
              /\ RowsOf(g_client_id', request'.key) = {} => flags' = flags
              /\ \A r \in flags' : ~(r.client_id = g_client_id' /\ r.key = request'.key)
        /\ \A tk \in DOMAIN ledger :
              ledger'[tk].state = "deleted" =>
                  /\ \A r \in flags' : ~(r.client_id = tk[1] /\ r.key = tk[2])
                  /\ (request'.endpoint = "get" /\ g_client_id' = tk[1] /\ request'.key = tk[2]) =>
                        response' = FlagNotFound
                  /\ ( /\ request'.endpoint = "evaluate" /\ g_client_id' = tk[1]
                       /\ validate_eval_payload(request'.payload)
                       /\ request'.payload[2].flag_key = tk[2] ) =>
                        response' = EvalNotFound ]_vars

C13_Witness ==
    /\ request.endpoint = "evaluate"
    /\ response = EvalNotFound
    /\ ledger[<<g_client_id, request.payload[2].flag_key>>].state = "deleted"
    /\ ledger[<<g_client_id, request.payload[2].flag_key>>].times = 2
    /\ \E r \in flags : r.key = request.payload[2].flag_key /\ r.updated_at = 1

\* the stored flag is off for these attributes: disabled, or a condition fails
EvaluatesOff(r, ua) ==
    \/ ~Truthy(r.enabled)
    \/ \E i \in 1..Len(r.conditions[2]) : ~Passes(r.conditions[2][i], ua)

\* C14: an authenticated, schema-valid evaluation request is answered 404
\* NotFound iff no flag record exists for (resolved tenant, flag_key); an
\* existing flag that is disabled or whose conditions fail is answered 200
\* with enabled=false, and an absent flag is never answered with an
\* evaluation.
C14_NotFoundIffAbsent ==
    ( /\ request.endpoint = "evaluate" /\ Authenticated
      /\ validate_eval_payload(request.payload) ) =>
        LET rows == RowsOf(g_client_id, request.payload[2].flag_key)
        IN  /\ response.status = 404 <=> rows = {}
            /\ rows = {} => response = EvalNotFound
            /\ \A r \in rows :
                  /\ response.status = 200
                  /\ response.body[1].flag_key = request.payload[2].flag_key
                  /\ EvaluatesOff(r, request.payload[2].user_attributes) =>
                        (response.body[1].enabled = FALSE /\ response.body[1].parameters = EmptyDict)

C14_Witness ==
    /\ request.endpoint = "evaluate"
    /\ response.status = 200
    /\ response.body[1].enabled = FALSE
    /\ \E r \in RowsOf(g_client_id, request.payload[2].flag_key) :
          Truthy(r.enabled) /\ Len(r.conditions[2]) > 0
    /\ \E r \in flags : r.client_id # g_client_id /\ ~Truthy(r.enabled)

-----------------------------------------------------------------------------
(* Properties of the access gate *)

ApiKeyEndpoints == { "upsert", "list", "get", "delete", "evaluate" }

HasPrefix(api_key) == api_key # <<"", "">> /\ api_key[1] = "nf_live_"

\* C15: resolve_client_by_api_key rejects an empty credential or one that
\* does not start with the prefix nf_live_ by returning None, without any
\* lookup in tenant storage and without any other side effect.
C15_PrefixRejectWithoutLookup ==
    [][ ( /\ request'.endpoint \in ApiKeyEndpoints \cup {"resolve_api_key"}
          /\ ~HasPrefix(request'.api_key) ) =>
            /\ calls' = <<>>
            /\ request'.endpoint = "resolve_api_key" => resolved' = {}
            /\ request'.endpoint \in ApiKeyEndpoints =>
                  (response' = Unauthorized /\ g_client_id' = "none")
            /\ UNCHANGED <<clients, flags, sessions, now>> ]_vars

C15_Witness ==
    /\ request.endpoint = "resolve_api_key"
    /\ request.api_key = KeyWrongPrefix
    /\ \E c \in clients : c.api_key_hash[3] = request.api_key[2]
    /\ resolved = {}
    /\ calls = <<>>
    /\ flags # {}

\* C16: resolve_client_by_api_key returns a tenant iff the credential has the
\* required prefix, a tenant record exists whose api_key_hash is the SHA-256
\* digest of the full credential, and that tenant is active; the tenant
\* returned is that record's tenant, and the result is None otherwise.
C16_ResolveIffActiveMatch ==
    request.endpoint = "resolve_api_key" =>
        LET api_key == request.api_key
            matching == { c \in clients : /\ HasPrefix(api_key)
                                          /\ c.api_key_hash = <<"sha256", api_key[1], api_key[2]>>
                                          /\ c.active }
        IN  /\ resolved = matching
            /\ Cardinality(resolved) <= 1

C16_Witness ==
    /\ request.endpoint = "resolve_api_key"
    /\ request.api_key = KeyB
    /\ \E c \in resolved : c.id = "B" /\ c.active
    /\ \E r \in flags : r.client_id = "A"

\* the tenant an API key stands for, if any
KeyTenant(api_key) ==
    { c \in clients : /\ HasPrefix(api_key)
                      /\ c.api_key_hash = <<"sha256", api_key[1], api_key[2]>>
                      /\ c.active }

\* the sessions a token stands for: matching, not expired, not revoked
LiveSessions(raw_token) ==
    { s \in sessions : /\ raw_token # ""
                       /\ s.token_hash = <<"sha256", raw_token>>
                       /\ s.expires_at > now
                       /\ ~s.revoked }

\* the client rows of those sessions, and the active ones among them
SessionClients(raw_token) ==
    { c \in clients : \E s \in LiveSessions(raw_token) : s.client_id = c.id }
SessionTenant(raw_token) == { c \in SessionClients(raw_token) : c.active }

\* a request whose credential stands for no active tenant
BadCredential ==
    \/ request.endpoint \in ApiKeyEndpoints /\ KeyTenant(request.api_key) = {}
    \/ request.endpoint = "session_view" /\ SessionTenant(request.session_token) = {}

\* C17: for every request to an endpoint guarded by require_api_key or
\* require_session whose credential is absent, malformed, unresolvable,
\* expired, revoked, or attached to a missing or inactive tenant, the gate
\* answers 401 (never an exception or a 5xx), the wrapped handler is not
\* invoked, and no flag storage read or write is performed for that request.
C17_BadCredentialAnswered401 ==
    BadCredential =>
        /\ response.status = 401
        /\ g_client_id = "none"
        /\ fetched = {}
        /\ \A i \in 1..Len(calls) : calls[i].table # "flags"

\* the flag repository function an endpoint calls
FlagCallOf(endpoint) ==
    CASE endpoint = "upsert" -> "upsert_flag"
      [] endpoint = "list" -> "list_flags_for_client"
      [] endpoint = "get" -> "get_flag_by_key"
      [] endpoint = "delete" -> "delete_flag"
      [] endpoint = "evaluate" -> "get_flag_by_key"

FlagCalls == { i \in 1..Len(calls) : calls[i].table = "flags" }

\* C18: on every request that passes the gate, every flag storage operation
\* of that request (upsert, get, list, delete, the lookup done by evaluate) is
\* issued with client_id equal to the id of the tenant the credential
\* resolved to, never with an id taken from the request body, path or query.
C18_StorageScopedToResolvedTenant ==
    (request.endpoint \in ApiKeyEndpoints /\ Authenticated) =>
        /\ \E c \in KeyTenant(request.api_key) : g_client_id = c.id
        /\ \A i \in FlagCalls :
              /\ calls[i].op = FlagCallOf(request.endpoint)
              /\ \E c \in KeyTenant(request.api_key) : calls[i].client_id = c.id
        /\ response.status \in {200, 204, 404} => FlagCalls # {}

C18_Witness ==
    /\ request.endpoint = "upsert"
    /\ request.api_key = KeyA
    /\ DictGet(request.payload, "client_id", JNull) = JStr("B")
    /\ response.status = 200
    /\ Len(calls) = 2
    /\ calls[2].op = "upsert_flag"
    /\ calls[2].client_id = "A"
    /\ \E r \in flags : r.client_id = "B" /\ r.key = request.payload[2].key /\ Truthy(r.enabled)

\* C19: session-scheme resolution rejects a token when no session matches it,
\* when the matching session is expired or revoked, and when the session's
\* owning tenant is inactive or missing; a live, unrevoked session of a tenant
\* whose active flag is false does not authenticate, on either resolution
\* path: resolve_client_by_session_token returns None, require_session
\* answers 401 without calling the view.
C19_SessionResolutionRejects ==
    /\ (request.endpoint = "resolve_session" /\ SessionTenant(request.session_token) = {}) =>
          resolved = {}
    /\ (request.endpoint = "session_view" /\ SessionTenant(request.session_token) = {}) =>
          /\ response \in { SessionMissing, SessionInvalid, SessionClientMissing }
          /\ g_client_id = "none"

\* C20: when require_session receives the token of a live session whose
\* client record exists, it attaches the client and client_id (the session's
\* client_id) to the request context and invokes the wrapped view, returning
\* the view's response.
C20_LiveSessionReachesView ==
    (request.endpoint = "session_view" /\ SessionClients(request.session_token) # {}) =>
        \E s \in LiveSessions(request.session_token) :
            /\ g_client_id = s.client_id
            /\ response = ViewResponse(s.client_id)

-----------------------------------------------------------------------------
(* Properties of accounts: signup, login, logout *)

\* the email and the password a JSON body carries
EmailOf(payload) == GetOr(payload, "email", <<>>)
PasswordOf(payload) == GetOr(payload, "password", "")

\* the normalized form of an email: strip + lowercase
Normalized(email) == lower(strip(email))

\* a response whose JSON body has the field f
HasField(resp, f) == resp.body # <<>> /\ f \in DOMAIN resp.body[1]

UniqueEmails ==
    \A c \in clients, d \in clients : Normalized(c.email) = Normalized(d.email) => c = d

\* C21: a rejected signup leaves table clients unchanged and returns no API
\* key: for an email without "@" or an empty password register_client raises
\* ValueError and the answer is 400, for an email whose normalized form is
\* that of a registered tenant it raises ClientAlreadyExistsError and the
\* answer is 409; and no two rows of table clients ever share a normalized
\* email
C21_RejectedSignupLeavesStore ==
    /\ []UniqueEmails
    /\ [][request'.endpoint = "signup" =>
            LET email == EmailOf(request'.payload)
                password == PasswordOf(request'.payload)
                invalid == ~Contains("@", Normalized(email)) \/ password = ""
                taken == \E c \in clients : Normalized(c.email) = Normalized(email)
                reg == register_client(email, password, now + 1)
            IN  /\ invalid => reg.outcome = "ValueError" /\ response'.status = 400
                /\ ~invalid /\ taken =>
                      reg.outcome = "ClientAlreadyExistsError" /\ response' = EmailConflict
                /\ response'.status # 201 =>
                      clients' = clients /\ ~HasField(response', "api_key")]_vars

\* a signup was accepted and a later one, with an email that normalizes to
\* the same, is answered 409
C21_Witness ==
    /\ request.endpoint = "signup"
    /\ response = EmailConflict
    /\ EmailOf(request.payload) = <<" ", "N", "@", "x">>
    /\ \E c \in clients : c.id = client_uuid4(1) /\ c.email = <<"n", "@", "x">>

\* two signups with an email of the same normalized form, both with the
\* "@" and the password that post_signup requires
SameEmail(w, o) ==
    /\ workers[w].payload # NoPayload
    /\ workers[o].payload # NoPayload
    /\ workers[w].status # 400
    /\ workers[o].status # 400
    /\ Normalized(EmailOf(workers[w].payload)) = Normalized(EmailOf(workers[o].payload))

\* C22: of two concurrent signups with the same normalized email, in every
\* interleaving, at most one creates a row of table clients and the other is
\* answered 409 (of post_signup's responses only clients.email_conflict has
\* that status)
C22_ConcurrentSignupConflict ==
    \A w \in Workers : \A o \in Workers \ {w} :
        /\ workers[w].pc = "done"
        /\ workers[o].pc = "done"
        /\ SameEmail(w, o)
        /\ workers[w].status = 201
        => /\ workers[o].status = 409
           /\ Cardinality({ c \in clients :
                  c.email = Normalized(EmailOf(workers[w].payload)) }) = 1

\* the names of the fields of a response's JSON body and of its "client" object
FieldsOf(resp) ==
    IF resp.body = <<>> THEN {}
    ELSE DOMAIN resp.body[1] \cup
         (IF "client" \in DOMAIN resp.body[1] THEN DOMAIN resp.body[1].client ELSE {})

\* C23: the plaintext API key is in the response of the signup that created
\* the tenant and in no other response: a response carries an api_key only
\* when it is the 201 of a signup, and the key is then the one whose digest
\* the row just inserted holds; table clients holds the digest and not the
\* key; no response has a field api_key_hash or password_hash
C23_ApiKeyReturnedOnce ==
    /\ [](\A c \in clients : "api_key" \notin DOMAIN c /\ c.api_key_hash[1] = "sha256")
    /\ [][/\ FieldsOf(response') \cap {"api_key_hash", "password_hash"} = {}
          /\ "api_key" \in FieldsOf(response') =>
                /\ request'.endpoint = "signup"
                /\ response'.status = 201
                /\ \E c \in clients' \ clients :
                      c.api_key_hash = hash_api_key(response'.body[1].api_key)
          /\ clients' # clients => HasField(response', "api_key")]_vars

\* the tenant a signup created asks for its profile with the key it was given
C23_Witness ==
    /\ request.endpoint = "me"
    /\ request.api_key = generate_api_key(1)
    /\ response.status = 200
    /\ response.body[1].client.id = str(client_uuid4(1))

\* C24: the key a signup returns starts with API_KEY_PREFIX, the row the
\* signup inserted stores hash_api_key of it and is the tenant the response
\* describes (its id, the normalized form of the email given), and resolving
\* a key yields exactly the active row that stores its digest
C24_ApiKeyRoundTrip ==
    [][/\ request'.endpoint = "signup" /\ response'.status = 201 =>
             LET api_key == response'.body[1].api_key
                 created == clients' \ clients
             IN  /\ startswith(api_key, API_KEY_PREFIX)
                 /\ Cardinality(created) = 1
                 /\ \A c \in created :
                       /\ c.api_key_hash = hash_api_key(api_key)
                       /\ c.active
                       /\ response'.body[1].client.id = str(c.id)
                       /\ response'.body[1].client.email = c.email
                       /\ c.email = Normalized(EmailOf(request'.payload))
       /\ request'.endpoint = "resolve_api_key" =>
             \A c \in clients' :
                 c.api_key_hash = hash_api_key(request'.api_key) /\ c.active
                 => resolved' = {c}]_vars

\* the key of the first signup, given " N@x", resolves to the row it created
C24_Witness ==
    /\ request.endpoint = "resolve_api_key"
    /\ request.api_key = generate_api_key(1)
    /\ \E c \in clients :
          /\ c.id = client_uuid4(1)
          /\ c.email = <<"n", "@", "x">>
          /\ c.api_key_hash = hash_api_key(request.api_key)
          /\ resolved = {c}

\* the tenants whose stored email is the normalized form of the email given
\* and whose stored hash the password given verifies against
Matching(payload) ==
    { c \in clients : /\ c.email = Normalized(EmailOf(payload))
                      /\ verify_password(PasswordOf(payload), c.password_hash) }

\* C25: a login is answered 200 exactly when a tenant with the normalized
\* email exists and the password verifies; the 200 carries the token of a new
\* live session of that tenant; with both fields given, an unknown email and
\* a wrong password get the same 401 auth.invalid_credentials; a login that
\* is not answered 200 leaves table sessions unchanged
C25_LoginIffCredentialsMatch ==
    [][request'.endpoint = "login" =>
          LET payload == request'.payload
              given == strip(EmailOf(payload)) # <<>> /\ PasswordOf(payload) # ""
              created == sessions' \ sessions
          IN  /\ response'.status = 200 <=> Matching(payload) # {}
              /\ response'.status = 200 =>
                    /\ Cardinality(created) = 1
                    /\ sessions \subseteq sessions'
                    /\ \A n \in created :
                          /\ n.token_hash = hash_token(response'.body[1].session_token)
                          /\ \E c \in Matching(payload) :
                                /\ n.client_id = c.id
                                /\ response'.body[1].client.id = str(c.id)
                          /\ ~n.revoked
                          /\ n.expires_at > now'
              /\ given /\ Matching(payload) = {} => response' = InvalidCredentials
              /\ response'.status # 200 => sessions' = sessions]_vars

\* tenant A logged in with its email spelled "A@x " and its password
C25_Witness ==
    /\ request.endpoint = "login"
    /\ EmailOf(request.payload) = <<"A", "@", "x", " ">>
    /\ response.status = 200
    /\ \E n \in sessions :
          /\ n.client_id = "A"
          /\ n.token_hash = hash_token(response.body[1].session_token)

\* the token a logout request presents: that of X-Session-Token, or that of
\* Authorization: Bearer when X-Session-Token is absent; "" when there is none
Presented(headers) ==
    IF headers.X_Session_Token # <<>> THEN header_str(strip(headers.X_Session_Token))
    ELSE IF startswith_bearer(headers.Authorization)
         THEN header_str(strip(Tail(headers.Authorization)))
         ELSE ""

\* C26: a logout that presents a non-empty token is answered 204 whether the
\* token is that of a live session, of a session logged out or revoked
\* before, or of none; afterwards no session has that token and the other
\* sessions are as they were; a logout with no token is answered 400 and
\* changes no session
C26_LogoutIdempotent ==
    [][request'.endpoint = "logout" =>
          LET token == Presented(request'.headers)
              mine == { n \in sessions : n.token_hash = hash_token(token) }
          IN  IF token = ""
              THEN response' = MissingSessionToken /\ sessions' = sessions
              ELSE response' = NoContent /\ sessions' = sessions \ mine]_vars

\* A logged in at time 1 and the session it was given is gone: the token was
\* presented to logout, once or more
C26_Witness ==
    /\ request.endpoint = "logout"
    /\ Presented(request.headers) = mint_token(1)
    /\ response = NoContent
    /\ now = 1
    /\ \A c \in clients : c.id \in ClientIds
    /\ \A n \in sessions : n.token_hash # hash_token(mint_token(1))

\* C30: a login with the email and the password of a tenant whose row has
\* active = false creates no session and returns no session token
C30_InactiveTenantGetsNoSession ==
    [][/\ request'.endpoint = "login"
       /\ \E c \in Matching(request'.payload) : ~c.active
       => /\ sessions' = sessions
          /\ ~HasField(response', "session_token")]_vars

-----------------------------------------------------------------------------
(* Properties of the flag endpoints: order of the steps, frame of an upsert *)

\* the body of an upsert or evaluate request passes the endpoint's validator
ValidBody(req) ==
    IF req.endpoint = "upsert" THEN validate_flag_config(req.payload)
    ELSE validate_eval_payload(req.payload)

\* C27: upsert and evaluate authenticate, then validate, then touch storage:
\* an authenticated request with an invalid body (a missing or non-JSON body
\* is read as {}) is answered 400 BadRequest with no read or write of flag
\* storage and table flags unchanged; an unauthenticated request with an
\* invalid body is answered 401, not 400
C27_AuthenticateValidateStore ==
    [][request'.endpoint \in {"upsert", "evaluate"} /\ ~ValidBody(request') =>
          /\ flags' = flags
          /\ \A i \in 1..Len(calls') : calls'[i].table # "flags"
          /\ fetched' = {}
          /\ response' = IF KeyTenant(request'.api_key) = {} THEN Unauthorized
                         ELSE BadRequest]_vars

\* with a flag stored, an upsert with no valid key and a body without
\* "enabled" is answered 401
C27_Witness ==
    /\ request.endpoint = "upsert"
    /\ request.payload = JObj([key |-> JStr("promo")])
    /\ request.api_key = KeyWrongPrefix
    /\ response = Unauthorized
    /\ flags # {}

\* C28: an upsert of a (tenant, key) that has a row changes enabled,
\* conditions, parameters and updated_at of that row and nothing else: id,
\* client_id, key and created_at stay those of the first insert, and the id
\* generated for the second upsert is stored and returned nowhere
C28_UpsertKeepsIdentity ==
    [][request'.endpoint = "upsert" /\ response'.status = 200 =>
          LET key == request'.payload[2].key
              old == { r \in flags : r.client_id = g_client_id' /\ r.key = key }
              new == { r \in flags' : r.client_id = g_client_id' /\ r.key = key }
          IN  old # {} =>
                 /\ Cardinality(new) = 1
                 /\ \A o \in old, n \in new :
                       /\ n.id = o.id
                       /\ n.client_id = o.client_id
                       /\ n.key = o.key
                       /\ n.created_at = o.created_at
                       /\ n.updated_at = now'
                       /\ n.id # uuid4(now')
                       /\ response'.body[1].id = str(o.id)
                       /\ response'.body[1].created_at = isoformat(o.created_at)
                 /\ \A r \in flags' : r.id # uuid4(now')]_vars

\* (A, promo) inserted at time 1 with enabled = true and upserted at time 2
\* with enabled = false
C28_Witness ==
    /\ request.endpoint = "upsert"
    /\ response.status = 200
    /\ now = 2
    /\ \E r \in flags :
          /\ r.client_id = "A"
          /\ r.id = uuid4(1)
          /\ r.created_at = 1
          /\ r.updated_at = 2
          /\ r.enabled = JBool(FALSE)

\* the contents that an upsert of (client_id, key), in flight or answered,
\* asked for, and those of the row stored before the requests arrived
Versions(client_id, key) ==
    { Asked(workers[w].payload) : w \in Writers(client_id, key) }
    \cup { Contents(r) : r \in { q \in {StoredRow} : q.client_id = client_id /\ q.key = key } }

\* the answer of post_evaluate when the record read has contents v
AnswerOn(key, v, ua) ==
    LET r == evaluate_flag(JObj([key |-> key, enabled |-> v.enabled,
                                 conditions |-> v.conditions, parameters |-> v.parameters]), ua)
    IN  IF r.outcome = "raise" THEN InternalServerError ELSE Response(200, <<r.value>>)

\* C29: an evaluation that runs while upserts and deletes of the same
\* (tenant, key) are in progress is answered NotFound, or with evaluate_flag
\* of a record whose enabled, conditions and parameters are all those of one
\* upsert
C29_EvaluationReadsOneVersion ==
    [][request'.endpoint = "evaluate" /\ g_client_id' # "none" =>
          LET key == request'.payload[2].flag_key
              ua == request'.payload[2].user_attributes
          IN  \/ response' = EvalNotFound
              \/ \E v \in Versions(g_client_id', key) : response' = AnswerOn(key, v, ua)]_vars

\* (A, promo) evaluated to the discount of one worker's committed upsert
\* while the other worker's update of the row is not yet committed
C29_Witness ==
    /\ request.endpoint = "evaluate"
    /\ g_client_id = "A"
    /\ response.status = 200
    /\ response.body[1].parameters = JObj([discount |-> JNum(40)])
    /\ \E w \in Workers :
          /\ workers[w].pc = "executed"
          /\ workers[w].client_id = "A"
          /\ workers[w].hit # {}
          /\ \A u \in workers[w].row : u.enabled = JBool(FALSE)

=============================================================================
